---- MODULE Spec2Model ----
(***************************************************************************)
(* Model of the Quark-Web transfer client.                                 *)
(*                                                                         *)
(* QuarkWebService.store runs the save-and-reshare sequence against the    *)
(* upstream drive API.  Every upstream call goes through request(), which  *)
(* loops over fetch attempts; task() loops over polls.  One step of the    *)
(* model is one suspension point of the JavaScript code: a fetch that      *)
(* settles, a backoff timer that fires, a poll timer that fires.           *)
(* IndexedDBService.checkDuplicate, the handlers of TransferPanel,         *)
(* SearchService.search and the link functions (getIdFromUrl,              *)
(* isValidQuarkUrl, extractQuarkLinks) are modelled the same way, each in  *)
(* a variable of its own.                                                  *)
(*                                                                         *)
(* Strings of the program that are not ASCII are written as ASCII tags;    *)
(* the comment beside each tag gives the source text.  URLs are sequences  *)
(* of one-character strings so that the regular expressions of urlUtils    *)
(* can be evaluated on them.                                               *)
(***************************************************************************)
EXTENDS Integers, Sequences, FiniteSets, TLC

VARIABLES
    st,         \* the running call of store(): a record of the fields below
    cbKinds,    \* the kinds of progressCallback callers pass (fixed by Init)
    dup,        \* the file store and the running call of checkDuplicate()
    tp,         \* the TransferPanel: its flags, counters and handler position
    srch,       \* the running call of SearchService.search()
    lp,         \* a text and what the link functions have returned for it
    sp,         \* the SearchPanel: its two sets and its running handlers
    svc,        \* the proxy settings, the QuarkWebService created last and
                \* the request it sent last
    bk,         \* the export of the file store and the running importData()
    px          \* the CORS proxy: the request it handles and its response

(***************************************************************************)
(* Fields of st (Idle again once a handler has taken the call's result)    *)
(*   op         the method running: "none" | "store" | "info"              *)
(*              (getFileInfo)                                              *)
(*   pc         where store() is suspended: "idle", a step name, "done"    *)
(*   loc        the local constants of store()                             *)
(*   phase      "none" | "fetching" | "backoff" | "pollwait"               *)
(*   attempt    request(): the loop variable `attempt`                     *)
(*   lastError  request(): the variable `lastError` ("none" = undefined)   *)
(*   delays     the delays (ms) the current call of request() has slept,   *)
(*              in order; <<1000>> while task() sleeps between two polls   *)
(*              (attempt, lastError and delays keep the values of the last *)
(*              call of request() once store() has settled)                *)
(*   i          task(): the loop variable `i`, sent as retry_index         *)
(*   response   task(): data.status of `response` while task() sleeps      *)
(*   cb         the progressCallback: "none" | "ok" | "throws"             *)
(*   outcome    <<>> while store() runs, else <<what its promise settled   *)
(*              with>>                                                     *)
(* History fields, written but never read by the operations                *)
(*   stepLog    the steps whose first request has been issued, in order    *)
(*   sent       the fields of the request in flight                        *)
(*   polls      the retry_index of every poll of the current task() call   *)
(*   pollResps  the number of polls of that call answered by a response    *)
(*   taskEnd    how the current task() call ended: "none" | "resolved" |   *)
(*              "exhausted" | "threw"                                      *)
(*   lastReq    how the last finished call of request() ended              *)
(*   rets       what each helper returned to store(), in order             *)
(*   seen       response fields the code drops: data.list, share_url       *)
(*   cbLog      the invocations of progressCallback, in order              *)
(***************************************************************************)
vars == <<st, cbKinds, dup, tp, srch, lp, sp, svc, bk, px>>

-----------------------------------------------------------------------------
(* Bounds of the model *)

\* longest detail list / save_as_top_fids list an upstream response carries
MaxListLen == 2
\* most records the file store holds
MaxRecords == 2

(* Program constants *)

\* request(path, options, retries = 3)
Retries == 3
\* task(taskId, maxTries = 10)
MaxTries == 10
\* the sleep between two polls of task(), ms
PollDelay == 1000
\* base and cap of the backoff of request(), ms
BackoffBase == 1000
BackoffCap == 5000

-----------------------------------------------------------------------------
(* Values *)

RECURSIVE Pow2(_)
Pow2(n) == IF n = 0 THEN 1 ELSE 2 * Pow2(n - 1)

Min(a, b) == IF a <= b THEN a ELSE b

\* All sequences over S of length at most n
RECURSIVE SeqsUpTo(_, _)
SeqsUpTo(S, n) ==
    IF n = 0 THEN {<<>>}
    ELSE LET shorter == SeqsUpTo(S, n - 1)
         IN  shorter \cup {Append(s, x) : s \in {t \in shorter : Len(t) = n - 1}, x \in S}

\* [A-Za-z0-9_] restricted to the characters the model's URLs use
WordChars == {"h", "t", "p", "s", "a", "n", "q", "u", "r", "k", "c", "b", "1", "_"}

\* "https://pan.quark.cn"
CanonicalHost ==
    <<"h","t","t","p","s",":","/","/","p","a","n",".","q","u","a","r","k",".","c","n">>

\* The URLs handed to store(): two canonical share links, a link with a query
\* string, a link of another path, a link whose /s/ segment is empty
Urls ==
    { CanonicalHost \o <<"/","s","/","a","b","1">>,
      CanonicalHost \o <<"/","s","/","b","_","?","p","=","1">>,
      CanonicalHost \o <<"/","l","i","s","t">>,
      CanonicalHost \o <<"/","s","/">>,
      <<>> }

\* Variant of getIdFromUrl: the rightmost match of the pattern is taken
getIdFromUrlRightmost(url) ==
    LET starts == {p \in 1..Len(url) :
                      /\ p + 3 <= Len(url)
                      /\ url[p] = "/" /\ url[p + 1] = "s" /\ url[p + 2] = "/"
                      /\ url[p + 3] \in WordChars}
    IN  IF starts = {} THEN <<>>
        ELSE LET p == CHOOSE q \in starts : \A r \in starts : q >= r
                 e == CHOOSE q \in (p + 3)..Len(url) :
                          /\ \A r \in (p + 3)..q : url[r] \in WordChars
                          /\ (q = Len(url) \/ url[q + 1] \notin WordChars)
             IN  SubSeq(url, p + 3, e)

\* const pattern = /\/s\/(\w+)/; match[1] of the leftmost match, '' if none
getIdFromUrl(url) ==
    LET starts == {p \in 1..Len(url) :
                      /\ p + 3 <= Len(url)
                      /\ url[p] = "/" /\ url[p + 1] = "s" /\ url[p + 2] = "/"
                      /\ url[p + 3] \in WordChars}
    IN  IF starts = {} THEN <<>>
        ELSE LET p == CHOOSE q \in starts : \A r \in starts : q <= r
                 e == CHOOSE q \in (p + 3)..Len(url) :
                          /\ \A r \in (p + 3)..q : url[r] \in WordChars
                          /\ (q = Len(url) \/ url[q + 1] \notin WordChars)
             IN  SubSeq(url, p + 3, e)

\* Entries of data.list of the detail response
Files ==
    { [file_name |-> "movie.mp4", file_type |-> "video", fid |-> "f1",
       pdir_fid |-> "0", share_fid_token |-> "sft1"],
      [file_name |-> "notes.txt", file_type |-> "doc", fid |-> "f2",
       pdir_fid |-> "0", share_fid_token |-> "sft2"] }

Stokens == {"", "tok1", "tok2"}
TaskIds == {"", "task1"}
NewFids == {"newid1", "newid2"}
ShareIds == {"", "sh1"}
\* data.share_url of the share-link response: a new share link, or none (<<>>)
NewShareUrl == CanonicalHost \o <<"/","s","/","n","1">>
ShareUrls == {<<>>, NewShareUrl}

\* data.status of a task response: -1 stands for a response without the field,
\* 0 is the value of a job still running, 2 of a finished one
Statuses == {-1, 0, 2}

\* JavaScript truthiness of data.status
Truthy(status) == status > 0

\* The parsed JSON of a 2xx response; a field a response does not carry has its
\* empty value ("" / <<>> / -1), which optional chaining reads as undefined
EmptyBody ==
    [stoken |-> "", list |-> <<>>, task_id |-> "", status |-> -1,
     fids |-> <<>>, share_id |-> "", share_url |-> <<>>]

\* The bodies upstream may answer a request of `step` with
Bodies(step) ==
    CASE step = "token"  -> {[EmptyBody EXCEPT !.stoken = v] : v \in Stokens}
      [] step = "detail" -> {[EmptyBody EXCEPT !.list = v] : v \in SeqsUpTo(Files, MaxListLen)}
      [] step \in {"save", "share"} -> {[EmptyBody EXCEPT !.task_id = v] : v \in TaskIds}
      [] step = "saveTask" ->
            {[EmptyBody EXCEPT !.status = s, !.fids = v] :
                s \in Statuses, v \in SeqsUpTo(NewFids, MaxListLen)}
      [] step = "shareTask" ->
            {[EmptyBody EXCEPT !.status = s, !.share_id = v] : s \in Statuses, v \in ShareIds}
      [] step = "link"   -> {[EmptyBody EXCEPT !.share_url = v] : v \in ShareUrls}
      [] OTHER -> {}

\* What makes one fetch attempt throw inside the try block of request():
\* the abort of the timeout (AbortError), a failed connection (TypeError),
\* a response with !response.ok, a body response.json() cannot parse
ErrKinds == {"timeout", "network", "http", "parse"}

\* Error messages of store() (the text after the prefix of line 184)
MsgNoId == "no-file-id-in-link"               \* '无法从链接中提取文件ID'
MsgStoken == "get-share-token-failed"         \* '获取分享令牌失败'
MsgDetail == "get-file-detail-failed"         \* '获取文件详情失败'
MsgSaveTaskId == "get-save-task-id-failed"    \* '获取保存任务ID失败'
MsgSaveTask == "run-save-task-failed"         \* '执行保存任务失败'
MsgShareTaskId == "create-share-task-failed"  \* '创建分享任务失败'
MsgShareTask == "run-share-task-failed"       \* '执行分享任务失败'
MsgShareLink == "get-share-link-failed"       \* '获取分享链接失败'
MsgCallback == "callback-error"               \* the message of what the callback threw

TaskSteps == {"saveTask", "shareTask"}
StepOrder == <<"token", "detail", "save", "saveTask", "share", "shareTask", "link">>

NoLoc ==
    [url |-> <<>>, pwdId |-> <<>>, stoken |-> "", detail |-> <<>>, saveTaskId |-> "",
     taskResponse |-> <<>>, fileId |-> "", shareTaskId |-> "",
     shareTaskResponse |-> <<>>, shareId |-> ""]

\* The fields a request carries (query or JSON body); "" / -1: not carried
NoArgs ==
    [pwd_id |-> <<>>, stoken |-> "", fid |-> "", fid_token |-> "", task_id |-> "",
     retry_index |-> -1, title |-> "", share_id |-> ""]

NoReq == [step |-> "none", result |-> "none", err |-> "none"]

NoSeen == [list |-> <<>>, share_url |-> <<>>]

\* The state before store() is called
Idle ==
    [op |-> "none", pc |-> "idle", loc |-> NoLoc, attempt |-> 0, phase |-> "none", lastError |-> "none",
     delays |-> <<>>, i |-> 0, response |-> -1, cb |-> "none", outcome |-> <<>>,
     stepLog |-> <<>>, sent |-> NoArgs, polls |-> <<>>, pollResps |-> 0,
     taskEnd |-> "none", lastReq |-> NoReq, rets |-> <<>>,
     seen |-> NoSeen, cbLog |-> <<>>]

-----------------------------------------------------------------------------
(* request() *)

\* Variant of Delay: the backoff does not double
DelayFixed(a) == Min(BackoffBase, BackoffCap)

\* const delay = Math.min(1000 * Math.pow(2, attempt - 1), 5000)
Delay(a) == Min(BackoffBase * Pow2(a - 1), BackoffCap)

\* Variant of Args: the detail and save requests carry a share token kept from
\* an earlier call
ArgsKeptToken(s, step, idx) ==
    CASE step = "token"  -> [NoArgs EXCEPT !.pwd_id = s.loc.pwdId]
      [] step = "detail" -> [NoArgs EXCEPT !.pwd_id = s.loc.pwdId, !.stoken = "tok1"]
      [] step = "save"   ->
            [NoArgs EXCEPT !.fid = s.loc.detail[1].fid,
                           !.fid_token = s.loc.detail[1].share_fid_token,
                           !.pwd_id = s.loc.pwdId, !.stoken = "tok1"]
      [] step = "saveTask"  -> [NoArgs EXCEPT !.task_id = s.loc.saveTaskId, !.retry_index = idx]
      [] step = "share"  ->
            [NoArgs EXCEPT !.fid = s.loc.fileId, !.title = s.loc.detail[1].title]
      [] step = "shareTask" -> [NoArgs EXCEPT !.task_id = s.loc.shareTaskId, !.retry_index = idx]
      [] step = "link"   -> [NoArgs EXCEPT !.share_id = s.loc.shareId]

\* What each helper of store() puts into its request, from the values store()
\* passes it; a poll of task() carries the loop variable as retry_index
Args(s, step, idx) ==
    CASE step = "token"  -> [NoArgs EXCEPT !.pwd_id = s.loc.pwdId]
      [] step = "detail" -> [NoArgs EXCEPT !.pwd_id = s.loc.pwdId, !.stoken = s.loc.stoken]
      [] step = "save"   ->
            [NoArgs EXCEPT !.fid = s.loc.detail[1].fid,
                           !.fid_token = s.loc.detail[1].share_fid_token,
                           !.pwd_id = s.loc.pwdId, !.stoken = s.loc.stoken]
      [] step = "saveTask"  -> [NoArgs EXCEPT !.task_id = s.loc.saveTaskId, !.retry_index = idx]
      [] step = "share"  ->
            [NoArgs EXCEPT !.fid = s.loc.fileId, !.title = s.loc.detail[1].title]
      [] step = "shareTask" -> [NoArgs EXCEPT !.task_id = s.loc.shareTaskId, !.retry_index = idx]
      [] step = "link"   -> [NoArgs EXCEPT !.share_id = s.loc.shareId]

\* request() is entered for `step`: the first fetch is issued
Issue(s, step, idx) ==
    LET args == Args(s, step, idx)
    IN  [s EXCEPT !.pc = step, !.attempt = 1, !.phase = "fetching", !.lastError = "none",
                  !.delays = <<>>, !.i = idx, !.response = -1, !.sent = args,
                  !.taskEnd = IF step \in TaskSteps /\ idx = 0 THEN "none" ELSE @,
                  !.stepLog = IF idx = 0 THEN Append(@, step) ELSE @,
                  !.polls = IF step \in TaskSteps
                            THEN (IF idx = 0 THEN <<args.retry_index>>
                                  ELSE Append(@, args.retry_index))
                            ELSE @,
                  !.pollResps = IF step \in TaskSteps /\ idx = 0 THEN 0 ELSE @]

\* request() leaves its loop: `return await response.json()` or `throw lastError`
Finish(s, result) ==
    [s EXCEPT !.lastReq = [step |-> s.pc, result |-> result,
                           err |-> IF result = "threw" THEN s.lastError ELSE "none"]]

\* The catch block of request(): lastError = error
Failed(s, kind) == [s EXCEPT !.lastError = kind]

\* Variant of RetriesLeft: a failed attempt is always followed by another one
RetriesLeftAlways(s) == TRUE

\* if (attempt < retries): this failed attempt is followed by another one
RetriesLeft(s) == s.attempt < Retries

\* The sleep of the catch block of request() before the next attempt
Backoff(s) == [s EXCEPT !.phase = "backoff", !.delays = Append(@, Delay(s.attempt))]

\* Variant of Retry: a retried poll moves on to the next retry_index
RetryNextIndex(s) ==
    LET idx == IF s.pc \in TaskSteps THEN s.i + 1 ELSE s.i
    IN  [s EXCEPT !.attempt = @ + 1, !.phase = "fetching", !.i = idx,
                  !.sent = Args(s, s.pc, idx)]

\* The sleep is over: attempt++ and the next fetch, of the same path
Retry(s) == [s EXCEPT !.attempt = @ + 1, !.phase = "fetching"]

-----------------------------------------------------------------------------
(* The helpers of store(): what each returns for the body request() returned,
   or when request() threw (each helper catches and returns its empty value) *)

\* return response?.data?.stoken || ''
getStoken(body, threw) == IF threw THEN "" ELSE body.stoken

\* Variant of detail: the last entry of the list is taken
detailLastEntry(body, threw) ==
    IF threw \/ ~(Len(body.list) > 0) THEN <<>>
    ELSE LET idList == body.list[Len(body.list)]
         IN  <<[title |-> idList.file_name, file_type |-> idList.file_type,
                fid |-> idList.fid, pdir_fid |-> idList.pdir_fid,
                share_fid_token |-> idList.share_fid_token]>>

\* the fields of response.data.list[0], or null (<<>>) for an empty list
detail(body, threw) ==
    IF threw \/ ~(Len(body.list) > 0) THEN <<>>
    ELSE LET idList == body.list[1]
         IN  <<[title |-> idList.file_name, file_type |-> idList.file_type,
                fid |-> idList.fid, pdir_fid |-> idList.pdir_fid,
                share_fid_token |-> idList.share_fid_token]>>

\* return response?.data?.task_id || ''
saveTaskId(body, threw) == IF threw THEN "" ELSE body.task_id

\* return response?.data?.task_id || ''
shareTaskId(body, threw) == IF threw THEN "" ELSE body.task_id

\* return response?.data?.share_url || '' (the empty link is <<>>)
getShareLink(body, threw) == IF threw THEN <<>> ELSE body.share_url

-----------------------------------------------------------------------------
(* store() *)

\* progressCallback?.(step, message, pct)
Invoke(s, step, pct) ==
    IF s.cb = "none" THEN s
    ELSE [s EXCEPT !.cbLog = Append(@, [step |-> step, pct |-> pct])]

\* store() settles: its promise resolves with an outcome or rejects
Settle(s, how, success, message, data) ==
    [s EXCEPT !.pc = "done", !.phase = "none",
              !.outcome = Append(@, [settled |-> how, success |-> success,
                                     message |-> message, data |-> data])]

\* Variant of Catch: the error is thrown on to the caller
CatchRethrows(s, msg, t2) ==
    Settle(Invoke(s, -1, 0), "rejected", FALSE, <<"thrown", msg>>, <<>>)

\* The catch block of store(): the callback is told step -1, then the failure
\* outcome is returned; t2 says whether that callback invocation throws, which
\* leaves the catch block and rejects the promise of store()
Catch(s, msg, t2) ==
    IF s.cb = "throws" /\ t2
    THEN Settle(Invoke(s, -1, 0), "rejected", FALSE, <<"thrown", MsgCallback>>, <<>>)
    ELSE Settle(Invoke(s, -1, 0), "resolved", FALSE, <<"transfer-failed", msg>>, <<>>)

\* A callback invocation inside the try block, then `then`; t1 says whether the
\* invocation throws, which enters the catch block
AfterCb(s, step, pct, t1, t2, then) ==
    IF s.cb = "throws" /\ t1 THEN Catch(Invoke(s, step, pct), MsgCallback, t2) ELSE then

\* History: the helper of step s.pc has returned `value` to store()
Returned(s, value) == [s EXCEPT !.rets = Append(@, [step |-> s.pc, value |-> value])]

\* Variant of Start: the token request is issued before the id is looked at
StartRequestsFirst(u, k, t1, t2) ==
    LET s0 == [Idle EXCEPT !.op = "store", !.cb = k, !.loc.url = u]
        s1 == Invoke(s0, 1, 10)
        pwdId == getIdFromUrl(u)
        s2 == [s1 EXCEPT !.loc.pwdId = pwdId]
        s3 == Invoke(s2, 2, 20)
    IN  IF k = "throws" /\ t1 THEN Catch(s1, MsgCallback, t2)
        ELSE AfterCb(s2, 2, 20, t1, t2, Issue(s3, "token", 0))

\* store(url, progressCallback) up to its first await (lines 125-134)
Start(u, k, t1, t2) ==
    LET s0 == [Idle EXCEPT !.op = "store", !.cb = k, !.loc.url = u]
        s1 == Invoke(s0, 1, 10)
        pwdId == getIdFromUrl(u)
        s2 == [s1 EXCEPT !.loc.pwdId = pwdId]
        s3 == Invoke(s2, 2, 20)
    IN  IF k = "throws" /\ t1 THEN Catch(s1, MsgCallback, t2)
        ELSE IF pwdId = <<>> THEN Catch(s2, MsgNoId, t2)
        ELSE AfterCb(s2, 2, 20, t1, t2, Issue(s3, "token", 0))

\* lines 135-138: after getStoken
AfterToken(s, stoken, t1, t2) ==
    IF stoken = "" THEN Catch(s, MsgStoken, t2)
    ELSE LET s1 == [s EXCEPT !.loc.stoken = stoken]
         IN  AfterCb(s1, 3, 40, t1, t2, Issue(Invoke(s1, 3, 40), "detail", 0))

\* lines 139-144: after detail
AfterDetail(s, d, t1, t2) ==
    IF d = <<>> THEN Catch(s, MsgDetail, t2)
    ELSE LET s1 == [s EXCEPT !.loc.detail = d]
         IN  AfterCb(s1, 4, 60, t1, t2, Issue(Invoke(s1, 4, 60), "save", 0))

\* Variant of AfterSave: the save job is not polled
AfterSaveSkipsPoll(s, taskId, t1, t2) ==
    IF taskId = "" THEN Catch(s, MsgSaveTaskId, t2)
    ELSE Issue([s EXCEPT !.loc.saveTaskId = taskId, !.loc.fileId = "newid1"], "share", 0)

\* lines 145-147: after saveTaskId
AfterSave(s, taskId, t1, t2) ==
    IF taskId = "" THEN Catch(s, MsgSaveTaskId, t2)
    ELSE Issue([s EXCEPT !.loc.saveTaskId = taskId], "saveTask", 0)

\* if (!taskResponse?.data?.save_as?.save_as_top_fids?.length); resp is <<>> for null
SaveJobFailed(resp) == resp = <<>> \/ ~(Len(resp[1].fids) > 0)

\* lines 148-155: after task(saveTaskId)
AfterSaveTask(s, resp, t1, t2) ==
    IF SaveJobFailed(resp) THEN Catch(s, MsgSaveTask, t2)
    ELSE LET s1 == [s EXCEPT !.loc.fileId = resp[1].fids[1]]
         IN  AfterCb(s1, 5, 80, t1, t2, Issue(Invoke(s1, 5, 80), "share", 0))

\* Variant of AfterShare: an empty task id is not checked
AfterShareUnchecked(s, taskId, t1, t2) ==
    Issue([s EXCEPT !.loc.shareTaskId = taskId], "shareTask", 0)

\* lines 156-158: after shareTaskId
AfterShare(s, taskId, t1, t2) ==
    IF taskId = "" THEN Catch(s, MsgShareTaskId, t2)
    ELSE Issue([s EXCEPT !.loc.shareTaskId = taskId], "shareTask", 0)

\* if (!shareTaskResponse?.data?.share_id)
ShareJobFailed(resp) == resp = <<>> \/ resp[1].share_id = ""

\* lines 159-164: after task(shareTaskId)
AfterShareTask(s, resp, t1, t2) ==
    IF ShareJobFailed(resp) THEN Catch(s, MsgShareTask, t2)
    ELSE Issue([s EXCEPT !.loc.shareId = resp[1].share_id], "link", 0)

\* Variant of AfterLink: success is returned without the closing callback
AfterLinkSilent(s, shareLink, t1, t2) ==
    IF shareLink = <<>> THEN Catch(s, MsgShareLink, t2)
    ELSE LET d == s.loc.detail[1]
         IN  Settle(s, "resolved", TRUE, <<"transfer-ok", d.title>>,
                    <<[fileId |-> s.loc.fileId, fileName |-> d.title,
                       fileType |-> d.file_type, shareLink |-> shareLink]>>)

\* lines 165-179: after getShareLink
AfterLink(s, shareLink, t1, t2) ==
    IF shareLink = <<>> THEN Catch(s, MsgShareLink, t2)
    ELSE LET d == s.loc.detail[1]
         IN  AfterCb(s, 5, 100, t1, t2,
                Settle(Invoke(s, 5, 100), "resolved", TRUE, <<"transfer-ok", d.title>>,
                       <<[fileId |-> s.loc.fileId, fileName |-> d.title,
                          fileType |-> d.file_type, shareLink |-> shareLink]>>))

\* task() returns `resp` (<<>> for null) to store()
TaskReturns(s, resp, how, t1, t2) ==
    LET s1 == [s EXCEPT !.taskEnd = how]
    IN  IF s.pc = "saveTask"
        THEN AfterSaveTask(Returned([s1 EXCEPT !.loc.taskResponse = resp], resp),
                           resp, t1, t2)
        ELSE AfterShareTask(Returned([s1 EXCEPT !.loc.shareTaskResponse = resp], resp),
                            resp, t1, t2)

\* Variant of HasStatus: any status field counts, also that of a running job
HasStatusField(body) == body.status # -1

\* if (response?.data?.status)
HasStatus(body) == Truthy(body.status)

\* task(): request() returned `body` for poll i, or threw; without a status
\* task() sleeps 1000 ms
AfterPoll(s, body, threw, t1, t2) ==
    IF threw THEN TaskReturns(s, <<>>, "threw", t1, t2)
    ELSE IF HasStatus(body)
         THEN TaskReturns([s EXCEPT !.pollResps = @ + 1], <<body>>, "resolved", t1, t2)
    ELSE [s EXCEPT !.phase = "pollwait", !.attempt = 0, !.lastError = "none",
                   !.delays = <<PollDelay>>, !.response = body.status,
                   !.pollResps = @ + 1]

\* Variant of MorePolls: the loop condition is i <= maxTries
MorePollsOffByOne(s) == s.i + 1 <= MaxTries

\* task(): i++ and the loop condition i < maxTries
MorePolls(s) == s.i + 1 < MaxTries

\* task(): the sleep is over; the next poll, or `return null` after the loop
NextPoll(s, t1, t2) ==
    IF MorePolls(s) THEN Issue(s, s.pc, s.i + 1)
    ELSE TaskReturns([s EXCEPT !.i = @ + 1], <<>>, "exhausted", t1, t2)

\* request() has returned `body` to, or thrown into, the helper that called it
Resume(s, body, threw, t1, t2) ==
    CASE s.pc = "token"  ->
            LET v == getStoken(body, threw)
            IN  AfterToken(Returned(s, v), v, t1, t2)
      [] s.pc = "detail" ->
            LET v == detail(body, threw)
            IN  AfterDetail(Returned([s EXCEPT !.seen.list = body.list], v), v, t1, t2)
      [] s.pc = "save"   ->
            LET v == saveTaskId(body, threw)
            IN  AfterSave(Returned(s, v), v, t1, t2)
      [] s.pc = "share"  ->
            LET v == shareTaskId(body, threw)
            IN  AfterShare(Returned(s, v), v, t1, t2)
      [] s.pc = "link"   ->
            LET v == getShareLink(body, threw)
            IN  AfterLink(Returned([s EXCEPT !.seen.share_url = body.share_url], v), v, t1, t2)
      [] s.pc \in TaskSteps -> AfterPoll(s, body, threw, t1, t2)

\* Whether an invocation of callback k may throw
Throws(k) == IF k = "throws" THEN BOOLEAN ELSE {FALSE}

-----------------------------------------------------------------------------
(* IndexedDBService: the file store and checkDuplicate() *)

(***************************************************************************)
(* Fields of dup                                                           *)
(*   pc          "idle" | "running" | "returned" | "threw"                 *)
(*   db          the records of the object store 'files' (their fileName   *)
(*               and the three link fields; <<>> is a field not set)       *)
(*   indexNames  the link indexes the object store has                     *)
(*   fileName, shareLink   the arguments of checkDuplicate()               *)
(*   name        the promise of fileExists(): "pending" | "true" |         *)
(*               "false" | "error" (rejected)                              *)
(*   idx         per link index, the promise of checkWithIndex():          *)
(*               "absent" | "pending" | "true" | "false"                   *)
(*   scan        the getAll() request: "none" | "pending" | "done"         *)
(*   link        the promise of fileExistsByShareLink(): "pending" |       *)
(*               "true" | "false"                                          *)
(*   verdict     <<>>, or <<what checkDuplicate() returned>>               *)
(* History fields                                                          *)
(*   linkFailed  the link lookup was answered by a failure: getAll() erred *)
(*               or the transaction could not be opened                    *)
(*   nameAt      how many requests of the link lookup had completed when   *)
(*               the name lookup completed (-1: it has not)                *)
(***************************************************************************)

LinkIndexes == {"shareLink", "shareUrl", "originalUrl"}

\* The indexes of a database of version 2 (init() creates all three) and of
\* one opened with version 1
IndexSets == {{}, LinkIndexes}

\* The link a transfer was started from
OriginalUrl == CanonicalHost \o <<"/","s","/","a","b","1">>

DupNames == {f.file_name : f \in Files}
DupLinks == {NewShareUrl, OriginalUrl}

\* The records the store may hold: those insertFile() writes (shareLink only),
\* those addFile() writes (shareLink = shareUrl, originalUrl), and records that
\* carry only the alias shareUrl
Records ==
    {[fileName |-> n, shareLink |-> NewShareUrl, shareUrl |-> <<>>, originalUrl |-> <<>>] :
        n \in DupNames}
    \cup {[fileName |-> n, shareLink |-> x, shareUrl |-> x, originalUrl |-> o] :
        n \in DupNames, x \in {<<>>, NewShareUrl}, o \in {<<>>, OriginalUrl}}
    \cup {[fileName |-> n, shareLink |-> <<>>, shareUrl |-> NewShareUrl, originalUrl |-> <<>>] :
        n \in DupNames}

DBs == {S \in SUBSET Records : Cardinality(S) <= MaxRecords}

NoDup ==
    [pc |-> "idle", db |-> {}, indexNames |-> {}, fileName |-> "", shareLink |-> <<>>,
     name |-> "none", idx |-> [ix \in LinkIndexes |-> "absent"], scan |-> "none",
     link |-> "none", linkFailed |-> FALSE, nameAt |-> -1, verdict |-> <<>>]

Bool(b) == IF b THEN "true" ELSE "false"

\* index('fileName').get(fileName): resolve(!!request.result)
NameFound(db, fileName) == \E r \in db : r.fileName = fileName

\* store.index(indexName).get(shareLink): !!request.result
IndexFinds(db, ix, shareLink) == \E r \in db : r[ix] = shareLink

\* Variant of ScanFinds: the full scan compares the field shareLink only
ScanFindsShareLinkOnly(db, shareLink) == \E r \in db : r.shareLink = shareLink

\* files.some(file => file.shareLink === shareLink || file.shareUrl === shareLink
\*                    || file.originalUrl === shareLink)
ScanFinds(db, shareLink) ==
    \E r \in db :
        r.shareLink = shareLink \/ r.shareUrl = shareLink \/ r.originalUrl = shareLink

\* The object checkDuplicate() returns (lines 116-121)
Classify(nameExists, linkExists) ==
    [exists |-> nameExists \/ linkExists,
     duplicateType |-> IF nameExists THEN (IF linkExists THEN "both" ELSE "name")
                       ELSE (IF linkExists THEN "link" ELSE "none"),
     nameExists |-> nameExists, linkExists |-> linkExists]

\* The requests of the link lookup that have completed
LinkEvents(d) ==
    Cardinality({ix \in LinkIndexes : d.idx[ix] \in {"true", "false"}})
        + (IF d.scan = "done" THEN 1 ELSE 0)

\* Promise.all of the three checkWithIndex() promises, then lines 82-100:
\* resolve(true) when an index found the link, else the getAll() request
AfterIndexes(d) ==
    IF \E ix \in LinkIndexes : d.idx[ix] = "pending" THEN d
    ELSE IF \E ix \in LinkIndexes : d.idx[ix] = "true" THEN [d EXCEPT !.link = "true"]
    ELSE [d EXCEPT !.scan = "pending"]

\* Variant of Joined: the verdict is produced as soon as the name lookup is
\* done, a link lookup still pending counting as not found
JoinedOnName(d) ==
    IF d.pc # "running" THEN d
    ELSE IF d.name = "error" THEN [d EXCEPT !.pc = "threw"]
    ELSE IF d.name \in {"true", "false"}
         THEN [d EXCEPT !.pc = "returned",
                        !.verdict = <<Classify(d.name = "true", d.link = "true")>>]
    ELSE d

\* The Promise.all of checkDuplicate() (lines 111-124): it rejects as soon as
\* fileExists() rejects, and checkDuplicate() throws; it resolves when both
\* lookups have resolved, and checkDuplicate() returns the verdict
Joined(d) ==
    IF d.pc # "running" THEN d
    ELSE IF d.name = "error" THEN [d EXCEPT !.pc = "threw"]
    ELSE IF d.name \in {"true", "false"} /\ d.link \in {"true", "false"}
         THEN [d EXCEPT !.pc = "returned",
                        !.verdict = <<Classify(d.name = "true", d.link = "true")>>]
    ELSE d

\* checkDuplicate(fileName, shareLink) up to its await: both lookups are
\* started.  txThrows: this.db.transaction() throws, which rejects the promise
\* of fileExists() and makes fileExistsByShareLink() resolve(false) (line 104)
checkDuplicate(d, fileName, shareLink, txThrows) ==
    LET d0 == [d EXCEPT !.pc = "running", !.fileName = fileName, !.shareLink = shareLink,
                        !.name = IF txThrows THEN "error" ELSE "pending",
                        !.idx = [ix \in LinkIndexes |->
                                    IF ~txThrows /\ ix \in d.indexNames
                                    THEN "pending" ELSE "absent"],
                        !.scan = "none",
                        !.link = IF txThrows THEN "false" ELSE "pending",
                        !.linkFailed = txThrows, !.nameAt = -1, !.verdict = <<>>]
    IN  Joined(IF txThrows THEN d0 ELSE AfterIndexes(d0))

\* fileExists(): request.onsuccess / request.onerror (lines 55-56)
fileExists(d, ok) ==
    [d EXCEPT !.name = IF ok THEN Bool(NameFound(d.db, d.fileName)) ELSE "error",
              !.nameAt = LinkEvents(d)]

\* checkWithIndex(): request.onsuccess / request.onerror (lines 71-72)
checkWithIndex(d, ix, ok) ==
    [d EXCEPT !.idx[ix] = Bool(ok /\ IndexFinds(d.db, ix, d.shareLink))]

\* getAllRequest.onsuccess / getAllRequest.onerror (lines 91-100)
getAllDone(d, ok) ==
    [d EXCEPT !.scan = "done", !.link = Bool(ok /\ ScanFinds(d.db, d.shareLink)),
              !.linkFailed = ~ok]

-----------------------------------------------------------------------------
(* getFileInfo() of QuarkWebService and the handlers of TransferPanel *)

(***************************************************************************)
(* Fields of tp                                                            *)
(*   pc             where the running handler is suspended: "idle" |       *)
(*                  "info" (await extractFileName) | "dup" (await          *)
(*                  checkDuplicate) | "store" (await store) | "insert"     *)
(*                  (await insertFile) | "pause" (the sleep between two    *)
(*                  links) | "done"                                        *)
(*   isTransferring, isBatchMode, detectedLinks, batchResults   the fields *)
(*                  of the panel; shareUrl is the value of the input box   *)
(*   totalLinks, i, successCount, failCount, skipCount   the locals of     *)
(*                  handleBatchTransfer                                    *)
(*   batch          the handler running is handleBatchTransfer             *)
(*   link           the local `link` of the loop body, or the local        *)
(*                  `shareUrl` of handleSingleTransfer                     *)
(*   fileName       the local fileName ("" for null)                       *)
(*   result         result.data of the store() call that succeeded last    *)
(*   shown          what the handler showed last: "none" | "warning" |     *)
(*                  "invalid" | "success" | "fail" | "skip" | "batch"      *)
(* History fields                                                          *)
(*   slept          the sleep between two links has elapsed since the last *)
(*                  link ended                                             *)
(*   itemLog        per link processed, in order: how its duplicate check  *)
(*                  ended, whether store() was called, whether a request   *)
(*                  past the detail request was issued for it, whether a   *)
(*                  record was inserted, whether the sleep preceded its    *)
(*                  first request, which awaited call threw into the       *)
(*                  catch block ("none" | "check" | "store" | "insert"),   *)
(*                  whether store() returned success = true, the counter   *)
(*                  of the batch it was counted in ("none" | "success" |   *)
(*                  "fail" | "skip"),                                      *)
(*                  and the link it was processed for                      *)
(*   earlier        the itemLog entries of the handler runs that ended     *)
(*                  before the running one                                 *)
(*   starts, ends   the handlers that have set isTransferring, and those   *)
(*                  that have left their finally block                     *)
(*   ignored        handleTransfer() has returned at its first line since  *)
(*                  the last handler started                               *)
(*   events         the number of input events handled                     *)
(*   startLinks     detectedLinks as it was when the batch started         *)
(***************************************************************************)

\* most links of a batch
MaxLinks == 2
\* most polls a job answers as still running while a handler waits for it
MaxRunningPolls == 1
\* most clicks of the transfer button for one and the same link
MaxAttempts == 2

SecondUrl == CanonicalHost \o <<"/","s","/","b","1">>
ThirdUrl == CanonicalHost \o <<"/","s","/","c","1">>

\* The links extractQuarkLinks() may have detected: no link twice
LinkLists ==
    {l \in SeqsUpTo({OriginalUrl, SecondUrl, ThirdUrl}, MaxLinks) :
        \A a, b \in 1..Len(l) : a # b => l[a] # l[b]}

\* The stores a handler may find: empty, or holding a record addFile() wrote
\* for an earlier transfer of OriginalUrl
PanelDBs ==
    {{}, {[fileName |-> "notes.txt", shareLink |-> NewShareUrl, shareUrl |-> NewShareUrl,
           originalUrl |-> OriginalUrl]}}

\* What upstream answers while a handler runs
PanelBodies(step) ==
    CASE step = "token"  -> {[EmptyBody EXCEPT !.stoken = v] : v \in {"", "tok1"}}
      [] step = "detail" ->
            {[EmptyBody EXCEPT !.list = v] : v \in SeqsUpTo({f \in Files : f.fid = "f1"}, 1)}
      [] step \in {"save", "share"} -> {[EmptyBody EXCEPT !.task_id = v] : v \in TaskIds}
      [] step = "saveTask" ->
            {[EmptyBody EXCEPT !.status = s, !.fids = v] :
                s \in {0, 2}, v \in SeqsUpTo({"newid1"}, 1)}
      [] step = "shareTask" ->
            {[EmptyBody EXCEPT !.status = s, !.share_id = v] : s \in {0, 2}, v \in ShareIds}
      [] step = "link"   -> {[EmptyBody EXCEPT !.share_url = v] : v \in ShareUrls}

\* The requests that submit or poll a save job or a share job, or fetch the link
JobSteps == {"save", "saveTask", "share", "shareTask", "link"}

NoItem ==
    [check |-> "none", storeCalled |-> FALSE, storeOk |-> FALSE, jobs |-> FALSE,
     inserted |-> FALSE, pauseBefore |-> FALSE, caught |-> "none", link |-> <<>>,
     counted |-> "none"]

\* The TransferPanel after its constructor
NoPanel ==
    [pc |-> "idle", isTransferring |-> FALSE, isBatchMode |-> FALSE, shareUrl |-> <<>>,
     detectedLinks |-> <<>>, batchResults |-> <<>>, totalLinks |-> 0, i |-> 0,
     successCount |-> 0, failCount |-> 0, skipCount |-> 0, fileName |-> "", result |-> <<>>,
     shown |-> "none", batch |-> FALSE, link |-> <<>>, slept |-> FALSE, itemLog |-> <<>>,
     earlier |-> <<>>, starts |-> 0, ends |-> 0, ignored |-> FALSE, events |-> 0,
     startLinks |-> <<>>]

\* Variant of isValidQuarkUrl: the pattern ends with /s/, without \w+
isValidQuarkUrlNoId(url) ==
    /\ Len(url) >= Len(CanonicalHost) + 3
    /\ SubSeq(url, 1, Len(CanonicalHost)) = CanonicalHost
    /\ SubSeq(url, Len(CanonicalHost) + 1, Len(CanonicalHost) + 3) = <<"/", "s", "/">>

\* const pattern = /^https:\/\/pan\.quark\.cn\/s\/\w+/; pattern.test(url)
isValidQuarkUrl(url) ==
    /\ Len(url) >= Len(CanonicalHost) + 4
    /\ SubSeq(url, 1, Len(CanonicalHost)) = CanonicalHost
    /\ SubSeq(url, Len(CanonicalHost) + 1, Len(CanonicalHost) + 3) = <<"/", "s", "/">>
    /\ url[Len(CanonicalHost) + 4] \in WordChars

\* getFileInfo() returns: the object built from `detail`, or null
InfoReturns(s) == [s EXCEPT !.pc = "done", !.phase = "none"]

\* getFileInfo(url) up to its first await
getFileInfo(url) ==
    LET pwdId == getIdFromUrl(url)
        s0 == [Idle EXCEPT !.op = "info", !.loc.url = url, !.loc.pwdId = pwdId]
    IN  IF pwdId = <<>> THEN InfoReturns(s0) ELSE Issue(s0, "token", 0)

\* Variant of ResumeInfo: with the detail at hand getFileInfo() goes on to
\* submit the save job
ResumeInfoSaves(s, body, threw) ==
    CASE s.pc = "token" ->
            LET v == getStoken(body, threw)
                s1 == Returned(s, v)
            IN  IF v = "" THEN InfoReturns(s1)
                ELSE Issue([s1 EXCEPT !.loc.stoken = v], "detail", 0)
      [] s.pc = "detail" ->
            LET v == detail(body, threw)
                s1 == Returned([s EXCEPT !.seen.list = body.list, !.loc.detail = v], v)
            IN  IF v = <<>> THEN InfoReturns(s1) ELSE Issue(s1, "save", 0)

\* getFileInfo(): request() has returned `body` to, or thrown into, its helper
ResumeInfo(s, body, threw) ==
    CASE s.pc = "token" ->
            LET v == getStoken(body, threw)
                s1 == Returned(s, v)
            IN  IF v = "" THEN InfoReturns(s1)
                ELSE Issue([s1 EXCEPT !.loc.stoken = v], "detail", 0)
      [] s.pc = "detail" ->
            LET v == detail(body, threw)
            IN  InfoReturns(Returned([s EXCEPT !.seen.list = body.list, !.loc.detail = v], v))

\* extractFileName(): fileInfo?.fileName || null
extractFileName(s) == IF s.loc.detail = <<>> THEN "" ELSE s.loc.detail[1].title

World(s, d, t) == [st |-> s, dup |-> d, tp |-> t]

\* Variant of ItemLink: the batch walks its list from the end
ItemLinkReversed(t) ==
    IF t.batch THEN t.detectedLinks[t.totalLinks - t.i] ELSE t.shareUrl

\* const link = this.detectedLinks[i] (line 197; undefined, which the link
\* functions treat like the empty string, past the end of the array), or
\* const shareUrl = the value of the input box (line 103)
ItemLink(t) ==
    IF t.batch
    THEN (IF t.i + 1 <= Len(t.detectedLinks) THEN t.detectedLinks[t.i + 1] ELSE <<>>)
    ELSE t.shareUrl

Range(f) == {f[k] : k \in 1..Len(f)}

\* finally: resetTransferState()
EndHandler(t, shown) ==
    [t EXCEPT !.pc = "done", !.isTransferring = FALSE, !.shown = shown, !.ends = @ + 1]

\* The top of the loop body (lines 197-207), or lines 125-127 of the single
\* transfer: extractFileName(link) is called and getFileInfo() issues its
\* first request
BeginItem(s, d, t) ==
    LET t1 == [t EXCEPT !.pc = "info", !.link = ItemLink(t), !.fileName = "",
                        !.slept = FALSE,
                        !.itemLog = Append(@, [NoItem EXCEPT !.pauseBefore = t.slept,
                                                             !.link = ItemLink(t)])]
    IN  World(getFileInfo(t1.link), d, t1)

\* i++ and the loop condition; after the loop showBatchResult() and finally
NextIteration(s, d, t) ==
    LET t1 == [t EXCEPT !.i = @ + 1]
    IN  IF t1.i < t1.totalLinks THEN BeginItem(s, d, t1)
        ELSE World(s, d, EndHandler(t1, "batch"))

\* Lines 259-261: the end of the loop body sleeps 1000 ms unless the link was
\* the last
AfterItem(s, d, t) ==
    IF t.i < t.totalLinks - 1 THEN World(s, d, [t EXCEPT !.pc = "pause"])
    ELSE NextIteration(s, d, t)

\* Variant of PushResult: a skipped link is counted as a failure
PushResultSkipAsFail(t, kind, message) ==
    [t EXCEPT !.batchResults = Append(@, [link |-> t.link, success |-> kind = "success",
                                          skipped |-> kind = "skip", message |-> message[1]]),
              !.successCount = IF kind = "success" THEN @ + 1 ELSE @,
              !.failCount = IF kind \in {"fail", "skip"} THEN @ + 1 ELSE @,
              !.itemLog[Len(t.itemLog)].counted = IF kind = "skip" THEN "fail" ELSE kind]

\* this.batchResults.push(...) and the counter of the result's kind; of the
\* message the result keeps its class: "ok" | "duplicate" | "transfer-failed"
\* (the message of store()) | "error" (error.message of what was caught)
PushResult(t, kind, message) ==
    [t EXCEPT !.batchResults = Append(@, [link |-> t.link, success |-> kind = "success",
                                          skipped |-> kind = "skip", message |-> message[1]]),
              !.successCount = IF kind = "success" THEN @ + 1 ELSE @,
              !.failCount = IF kind = "fail" THEN @ + 1 ELSE @,
              !.skipCount = IF kind = "skip" THEN @ + 1 ELSE @,
              !.itemLog[Len(t.itemLog)].counted = kind]

\* Variant of ItemDone: an error caught for a link of a batch ends the batch
ItemDoneAbortsOnError(s, d, t, kind, message) ==
    IF ~t.batch THEN World(s, d, EndHandler(t, kind))
    ELSE IF message[1] = "error" THEN World(s, d, EndHandler(PushResult(t, kind, message), "fail"))
    ELSE IF kind = "skip" THEN NextIteration(s, d, PushResult(t, kind, message))
    ELSE AfterItem(s, d, PushResult(t, kind, message))

\* The link's outcome of `kind` ("success" | "fail" | "skip").  Batch: the
\* result is pushed; a skip leaves the loop body by `continue` (line 222), the
\* others reach its end.  Single: the result is shown and the handler ends.
ItemDone(s, d, t, kind, message) ==
    IF ~t.batch THEN World(s, d, EndHandler(t, kind))
    ELSE IF kind = "skip" THEN NextIteration(s, d, PushResult(t, kind, message))
    ELSE AfterItem(s, d, PushResult(t, kind, message))

\* quarkService.store(link) of the batch (line 226), store(shareUrl, callback)
\* of the single transfer (line 145)
CallStore(s, d, t) ==
    World(Start(t.link, IF t.batch THEN "none" ELSE "ok", FALSE, FALSE), d,
          [t EXCEPT !.pc = "store", !.itemLog[Len(t.itemLog)].storeCalled = TRUE])

\* Lines 207-209 / 127-129: extractFileName() has returned; with a file name
\* checkDuplicate() is called, without one store() is called at once
AfterExtract(s, d, t, txThrows) ==
    LET fileName == extractFileName(s)
        t1 == [t EXCEPT !.fileName = fileName,
                        !.itemLog[Len(t.itemLog)].jobs = @ \/ JobSteps \cap Range(s.stepLog) # {}]
    IN  IF fileName # ""
        THEN World(Idle, checkDuplicate(d, fileName, t.link, txThrows),
                   [t1 EXCEPT !.pc = "dup"])
        ELSE CallStore(s, d, t1)

\* The call of checkDuplicate() is over and its promises are dropped: what is
\* left of dup is the store
Closed(d) == [NoDup EXCEPT !.db = d.db, !.indexNames = d.indexNames]

\* Variant of AfterDup: a duplicate is transferred all the same
AfterDupIgnored(s, d, t) ==
    IF d.pc = "threw"
    THEN ItemDone(s, Closed(d), [t EXCEPT !.itemLog[Len(t.itemLog)].check = "threw",
                                      !.itemLog[Len(t.itemLog)].caught = "check"],
                  "fail", <<"error", "check-duplicate-failed">>)
    ELSE CallStore(s, Closed(d), [t EXCEPT !.itemLog[Len(t.itemLog)].check =
                                      IF d.verdict[1].exists THEN "duplicate" ELSE "clean"])

\* Lines 209-224 / 129-143: checkDuplicate() has returned or thrown
AfterDup(s, d, t) ==
    IF d.pc = "threw"
    THEN ItemDone(s, Closed(d), [t EXCEPT !.itemLog[Len(t.itemLog)].check = "threw",
                                      !.itemLog[Len(t.itemLog)].caught = "check"],
                  "fail", <<"error", "check-duplicate-failed">>)
    ELSE IF d.verdict[1].exists
    THEN ItemDone(s, Closed(d), [t EXCEPT !.itemLog[Len(t.itemLog)].check = "duplicate"],
                  "skip", <<"duplicate", d.verdict[1].duplicateType>>)
    ELSE CallStore(s, Closed(d), [t EXCEPT !.itemLog[Len(t.itemLog)].check = "clean"])

\* Variant of AfterStore: a transfer that failed is recorded all the same
AfterStoreRecordsFailure(s, d, t) ==
    LET out == s.outcome[1]
        t1 == [t EXCEPT !.itemLog[Len(t.itemLog)].jobs = @ \/ JobSteps \cap Range(s.stepLog) # {}]
        d1 == [d EXCEPT !.db = @ \cup {[fileName |-> "movie.mp4", shareLink |-> <<>>,
                                        shareUrl |-> <<>>, originalUrl |-> t.link]}]
    IN  IF out.settled = "rejected"
        THEN ItemDone(Idle, d, [t1 EXCEPT !.itemLog[Len(t.itemLog)].caught = "store"],
                      "fail", <<"error", out.message[2]>>)
        ELSE IF out.success
        THEN World(Idle, d, [t1 EXCEPT !.pc = "insert", !.result = out.data,
                                       !.itemLog[Len(t.itemLog)].storeOk = TRUE])
        ELSE ItemDone(Idle, d1, t1, "fail", out.message)

\* Lines 226-249 / 145-163: store() has settled
AfterStore(s, d, t) ==
    LET out == s.outcome[1]
        t1 == [t EXCEPT !.itemLog[Len(t.itemLog)].jobs = @ \/ JobSteps \cap Range(s.stepLog) # {}]
    IN  IF out.settled = "rejected"
        THEN ItemDone(Idle, d, [t1 EXCEPT !.itemLog[Len(t.itemLog)].caught = "store"],
                      "fail", <<"error", out.message[2]>>)
        ELSE IF out.success
        THEN World(Idle, d, [t1 EXCEPT !.pc = "insert", !.result = out.data,
                                       !.itemLog[Len(t.itemLog)].storeOk = TRUE])
        ELSE ItemDone(Idle, d, t1, "fail", out.message)

\* clearBatchInput(): the batch box and the detected links are emptied
clearBatchInput(t) == [t EXCEPT !.detectedLinks = <<>>, !.isBatchMode = FALSE]

\* clearForm(): both boxes, the detected links and the batch results are
\* emptied
clearForm(t) == [clearBatchInput(t) EXCEPT !.shareUrl = <<>>, !.batchResults = <<>>]

\* insertFile(fileId, fileName, fileType, shareLink): the record it adds
insertFile(data) ==
    [fileName |-> data.fileName, shareLink |-> data.shareLink, shareUrl |-> <<>>,
     originalUrl |-> <<>>]

\* Variant of AfterInsert: a rejected insertFile() is not told from a
\* resolved one
AfterInsertIgnoresRejection(s, d, t, ok) ==
    LET d1 == IF ok THEN [d EXCEPT !.db = @ \cup {insertFile(t.result[1])}] ELSE d
        t1 == [t EXCEPT !.itemLog[Len(t.itemLog)].inserted = ok]
    IN  ItemDone(s, d1, IF t.batch THEN t1 ELSE clearForm(t1), "success", <<"ok">>)

\* Lines 229-241 / 150-159: insertFile() has resolved or rejected; the single
\* transfer calls clearForm() after a success
AfterInsert(s, d, t, ok) ==
    IF ~ok THEN ItemDone(s, d, [t EXCEPT !.itemLog[Len(t.itemLog)].caught = "insert"],
                         "fail", <<"error", "insert-failed">>)
    ELSE LET d1 == [d EXCEPT !.db = @ \cup {insertFile(t.result[1])}]
             t1 == [t EXCEPT !.itemLog[Len(t.itemLog)].inserted = TRUE]
             t2 == IF t.batch THEN t1 ELSE clearForm(t1)
         IN  ItemDone(s, d1, t2, "success", <<"ok">>)

\* Lines 796-810: the mode follows the two inputs unless both hold links, when
\* a dialog is shown and the mode stays as it is
checkInputConflict(t) ==
    LET hasSingleUrl == t.shareUrl # <<>> /\ isValidQuarkUrl(t.shareUrl)
        hasBatchLinks == Len(t.detectedLinks) > 0
    IN  IF hasSingleUrl /\ hasBatchLinks THEN t
        ELSE [t EXCEPT !.isBatchMode = hasBatchLinks /\ ~hasSingleUrl]

\* Lines 717-725, links the result of extractQuarkLinks() on the typed text
handleBatchInput(t, links) == checkInputConflict([t EXCEPT !.detectedLinks = links])

\* Lines 731-737, url the value of the single-link box
handleSingleUrlInput(t, url) == checkInputConflict([t EXCEPT !.shareUrl = url])

\* What is typed into the batch box and into the single-link box
TypedLists == {<<SecondUrl, ThirdUrl>>, <<ThirdUrl>>}
TypedUrls == {OriginalUrl}

\* The most input events followed in one behaviour
MaxEvents == 2

\* The test of handleTransfer()'s first line left out
NeverInProgress(t) == FALSE

\* Line 93: the test of handleTransfer()'s first line
TransferInProgress(t) == t.isTransferring

\* handleTransfer() and the handler it calls, up to the first request
handleTransfer(s, d, t, batch, url, links, cookie) ==
    IF TransferInProgress(t) THEN World(s, d, [t EXCEPT !.ignored = TRUE])
    ELSE IF batch /\ Len(links) = 0 THEN World(s, d, [t EXCEPT !.shown = "warning"])
    ELSE IF ~batch /\ url = <<>> THEN World(s, d, [t EXCEPT !.shown = "warning"])
    ELSE IF ~batch /\ ~isValidQuarkUrl(url) THEN World(s, d, [t EXCEPT !.shown = "invalid"])
    ELSE LET t1 == [t EXCEPT !.isTransferring = TRUE, !.isBatchMode = batch,
                             !.batch = batch, !.link = IF batch THEN <<>> ELSE url,
                             !.shareUrl = IF batch THEN @ ELSE url,
                             !.detectedLinks = IF batch THEN links ELSE @,
                             !.batchResults = IF batch THEN <<>> ELSE @,
                             !.totalLinks = IF batch THEN Len(links) ELSE 1,
                             !.i = 0, !.successCount = 0, !.failCount = 0, !.skipCount = 0,
                             !.slept = FALSE, !.itemLog = <<>>,
                             !.earlier = @ \o t.itemLog,
                             !.starts = @ + 1, !.ignored = FALSE,
                             !.startLinks = IF batch THEN links ELSE <<>>]
         IN  IF cookie = "" THEN World(s, d, EndHandler(t1, "fail"))
             ELSE BeginItem(s, d, t1)

-----------------------------------------------------------------------------
(* SearchService.search() *)

(***************************************************************************)
(* Fields of srch                                                          *)
(*   pc         "idle" | "fetching" (await makeRequest) | "done"           *)
(*   q          searchParams.q, a sequence of characters                   *)
(*   sent       requestData.q of the request in flight or last made        *)
(*   requests   the number of calls of fetch() (history)                   *)
(*   outcome    "none" | "returned" | "threw"                              *)
(***************************************************************************)

\* String.prototype.trim on a sequence of characters (" " the white space)
RECURSIVE TrimStart(_)
TrimStart(q) == IF q # <<>> /\ q[1] = " " THEN TrimStart(Tail(q)) ELSE q

RECURSIVE TrimEnd(_)
TrimEnd(q) ==
    IF q # <<>> /\ q[Len(q)] = " " THEN TrimEnd(SubSeq(q, 1, Len(q) - 1)) ELSE q

trim(q) == TrimEnd(TrimStart(q))

\* The search terms a caller passes: empty, blank, a word, a padded word
Queries == {<<>>, <<" ">>, <<" ", " ">>, <<"a">>, <<" ", "a", " ">>}

\* What ends the one fetch of search(): a 2xx response with code 200, one
\* with another code, a response with !response.ok, or fetch() throwing
SearchEnds == {"ok", "code", "http", "network"}

NoSearch == [pc |-> "idle", q |-> <<>>, sent |-> <<>>, requests |-> 0, outcome |-> "none"]

\* search(searchParams) up to its first await: the check of the search term,
\* then makeRequest('/api/search', ...)
search(q) ==
    IF q = <<>> \/ trim(q) = <<>>
    THEN [NoSearch EXCEPT !.pc = "done", !.q = q, !.outcome = "threw"]
    ELSE [NoSearch EXCEPT !.pc = "fetching", !.q = q, !.sent = trim(q), !.requests = 1]

\* search(): makeRequest() has returned or thrown; the catch block rethrows
AfterSearchRequest(sr, end) ==
    [sr EXCEPT !.pc = "done", !.outcome = IF end = "ok" THEN "returned" ELSE "threw"]

-----------------------------------------------------------------------------
(* extractQuarkLinks() of TransferPanel, and the texts the link functions are
   applied to *)

(***************************************************************************)
(* Fields of lp                                                            *)
(*   text       the string handed to the functions                         *)
(*   calls      the functions that have been applied to it                 *)
(*   id         what getIdFromUrl(text) returned (<<>> for '')             *)
(*   valid      what isValidQuarkUrl(text) returned                        *)
(*   links      what extractQuarkLinks(text) returned                      *)
(***************************************************************************)

\* most pieces a text is put together from
MaxPieces == 3

\* [a-zA-Z0-9]
AlnumChars == WordChars \ {"_"}

\* "https://pan.quark.cn/s/"
LinkPrefix == CanonicalHost \o <<"/", "s", "/">>

\* What texts are made of: the host, the /s/ segment, two identifiers (one
\* with an underscore), a hyphen, a blank, two links followed by a blank and
\* a link followed by nothing
Pieces ==
    { CanonicalHost, <<"/", "s", "/">>, <<"a", "b", "1">>, <<"b", "_">>, <<"-">>, <<" ">>,
      OriginalUrl \o <<" ">>, SecondUrl \o <<" ">>, OriginalUrl }

RECURSIVE Concat(_)
Concat(ps) == IF ps = <<>> THEN <<>> ELSE ps[1] \o Concat(Tail(ps))

Texts == {Concat(ps) : ps \in SeqsUpTo(Pieces, MaxPieces)}

NoParse == [text |-> <<>>, calls |-> {}, id |-> <<>>, valid |-> FALSE, links |-> <<>>]

\* The pattern /https:\/\/pan\.quark\.cn\/s\/[a-zA-Z0-9]+/ matches at p
MatchesAt(text, p) ==
    /\ p + Len(LinkPrefix) <= Len(text)
    /\ SubSeq(text, p, p + Len(LinkPrefix) - 1) = LinkPrefix
    /\ text[p + Len(LinkPrefix)] \in AlnumChars

\* The last position of the (greedy) match at p
MatchEnd(text, p) ==
    CHOOSE e \in (p + Len(LinkPrefix))..Len(text) :
        /\ \A r \in (p + Len(LinkPrefix))..e : text[r] \in AlnumChars
        /\ (e = Len(text) \/ text[e + 1] \notin AlnumChars)

\* text.match(quarkLinkRegex) with the g flag: the leftmost match at or after
\* `from`, then the matches after its end
RECURSIVE matchAll(_, _)
matchAll(text, from) ==
    LET starts == {p \in from..Len(text) : MatchesAt(text, p)}
    IN  IF starts = {} THEN <<>>
        ELSE LET p == CHOOSE q \in starts : \A r \in starts : q <= r
                 e == MatchEnd(text, p)
             IN  <<SubSeq(text, p, e)>> \o matchAll(text, e + 1)

\* [...new Set(matches)]: the first occurrence of each value, in order
RECURSIVE Unique(_)
Unique(ms) ==
    IF ms = <<>> THEN <<>>
    ELSE LET front == Unique(SubSeq(ms, 1, Len(ms) - 1))
             last == ms[Len(ms)]
         IN  IF \E k \in 1..Len(front) : front[k] = last THEN front ELSE Append(front, last)

\* Variant of extractQuarkLinks: the matches are returned as they are
extractQuarkLinksAll(text) ==
    IF text = <<>> \/ trim(text) = <<>> THEN <<>> ELSE matchAll(text, 1)

\* extractQuarkLinks(text)
extractQuarkLinks(text) ==
    IF text = <<>> \/ trim(text) = <<>> THEN <<>> ELSE Unique(matchAll(text, 1))

-----------------------------------------------------------------------------
(* createQuarkService() and the requests of the service it creates *)

(***************************************************************************)
(* Fields of svc                                                           *)
(*   location     window.location: "localhost" | "file" | "site"           *)
(*   enabled      localStorage 'quark-gui-proxy-enabled' is 'true'         *)
(*   custom       localStorage 'quark-gui-proxy-url' ("" when not set)     *)
(*   proxyUrl     the field proxyUrl of the ProxyManager                   *)
(*   defaultCookie  the cookie saved in the settings ("" when none is)      *)
(*   quark        <<>>, or <<the fields of this.services.quark>>; its      *)
(*                field option is options.useProxy as it was passed to the *)
(*                constructor                                              *)
(*   wire         <<>>, or <<the request sent last (the host its URL       *)
(*                starts with and its two credential headers) and the      *)
(*                service that sent it>>                                   *)
(***************************************************************************)

UpstreamHost == "https://drive-pc.quark.cn"
LocalProxy == "http://localhost:8081"
SiteProxy == "http://site:8081"
FileProxy == "http://:8081"
CustomProxy == "http://custom:9000"

Locations == {"localhost", "file", "site"}
\* The session credentials of the model; "" is a Cookie not configured, "c1"
\* one without the fields isValidCookieFormat() asks for
Cookies == {"", "c1", "__pus=c2"}
\* The paths of the seven requests of store()
Paths == {StepOrder[k] : k \in 1..Len(StepOrder)}

NoService ==
    [location |-> "localhost", enabled |-> FALSE, custom |-> "", proxyUrl |-> LocalProxy,
     defaultCookie |-> "", quark |-> <<>>, wire |-> <<>>]

\* getDefaultProxyUrl() of ProxyManager and of QuarkWebService
getDefaultProxyUrl(v) ==
    IF v.custom # "" THEN v.custom
    ELSE IF v.location = "localhost" THEN LocalProxy
    ELSE IF v.location = "file" THEN FileProxy
    ELSE SiteProxy

\* isProxyEnabled()
isProxyEnabled(v) == v.enabled

\* getProxyUrl(): of the two methods of this name the class keeps the second
getProxyUrl(v) == IF v.custom # "" THEN v.custom ELSE v.proxyUrl

\* detectProxyMode(): return isLocalhost || proxyEnabled || !isLocalhost
detectProxyMode(v) ==
    LET isLocalhost == v.location \in {"localhost", "file"}
        proxyEnabled == v.enabled
    IN  isLocalhost \/ proxyEnabled \/ ~isLocalhost

\* new QuarkWebService(cookie, logger, options): the fields the constructor
\* sets; a header not set is ""
QuarkWebService(v, cookie, options) ==
    LET useProxy == options.useProxy \/ detectProxyMode(v)
        proxyUrl == IF options.proxyUrl # "" THEN options.proxyUrl ELSE getDefaultProxyUrl(v)
    IN  [cookie |-> cookie, option |-> options.useProxy, useProxy |-> useProxy,
         proxyUrl |-> proxyUrl,
         baseUrl |-> IF useProxy THEN proxyUrl ELSE UpstreamHost,
         headers |-> [cookie |-> IF useProxy THEN "" ELSE cookie,
                      xQuarkCookie |-> IF useProxy THEN cookie ELSE ""]]

\* createQuarkService(cookie) of the application, for a cookie that is not
\* empty: the new service replaces this.services.quark
createQuarkService(v, cookie) ==
    LET options == [useProxy |-> isProxyEnabled(v), proxyUrl |-> getProxyUrl(v)]
    IN  [v EXCEPT !.quark = <<QuarkWebService(v, cookie, options)>>]

\* setProxyUrl(url)
setProxyUrl(v, url) == [v EXCEPT !.proxyUrl = url, !.custom = url]

\* saveProxySettings(): setProxyUrl(), then enableProxy() or disableProxy()
saveProxySettings(v, url, checked) == [setProxyUrl(v, url) EXCEPT !.enabled = checked]

\* buildUrl(path): the host the URL starts with
buildUrl(q) == IF q.useProxy THEN q.proxyUrl ELSE q.baseUrl

\* request(path): fetch(url, {headers: {...this.headers, ...options.headers}});
\* no caller passes a credential in options.headers
request(q, path) ==
    [path |-> path, host |-> buildUrl(q), cookie |-> q.headers.cookie,
     xQuarkCookie |-> q.headers.xQuarkCookie]

-----------------------------------------------------------------------------
(* SearchPanel.handleTransferRequest() *)

(***************************************************************************)
(* Fields of sp                                                            *)
(*   results            per item of the result list, its link and name     *)
(*   transferringItems, transferredItems   the two sets of the panel       *)
(*   state              per item, what setTransferState() set last         *)
(*   h                  per item, the handler running or run last for it:  *)
(*     pc       "idle" | "dup" (await checkDuplicate) | "store" (await     *)
(*              performTransfer) | "save" (await saveTransferRecord) |     *)
(*              "done"                                                     *)
(*     link, cleanName, result   its locals                                *)
(*     service  <<>>, or <<the service it was given>>                      *)
(*     s        its call of store(), with the fields of st                 *)
(*     script   what request() returned to the helpers of that call, in    *)
(*              order (history)                                            *)
(* History fields                                                          *)
(*   refused            why the last click that started no handler did     *)
(*                      not: "none" | "input" | "busy" | "transferred"     *)
(*   starts, ends       per item, the handlers that have passed the four   *)
(*                      checks of lines 287-308, and those that have left  *)
(*                      the finally block                                  *)
(*   lateStore          store() was called for an item of transferredItems *)
(***************************************************************************)

\* The items of the result list
Items == {"item1", "item2"}
\* most handlers that get past the checks for one item
MaxClicks == 2

\* The names of search results, and what cleanFileName() makes of them: ''
\* of a name that is empty or no string, a default name of one that is blank
\* without its tags, else the name without tags and entities
SearchNames == {"", "<em></em>", "movie.mp4", "<em>notes</em>.txt"}
cleanFileName(name) ==
    CASE name = "" -> ""
      [] name = "<em></em>" -> "unknown-file"
      [] name = "<em>notes</em>.txt" -> "notes.txt"
      [] OTHER -> name

\* The result lists of the model: two results with a link and a name, and
\* one whose first row has no link and whose second has no name
ResultLists ==
    {[item1 |-> [link |-> OriginalUrl, name |-> "movie.mp4"],
      item2 |-> [link |-> SecondUrl, name |-> "<em>notes</em>.txt"]],
     [item1 |-> [link |-> <<" ">>, name |-> "movie.mp4"],
      item2 |-> [link |-> OriginalUrl, name |-> ""]]}

NoHandler ==
    [pc |-> "idle", link |-> <<>>, cleanName |-> "", result |-> <<>>, service |-> <<>>,
     s |-> Idle, script |-> <<>>]

\* The SearchPanel after its constructor, showing a result list
NoSearchPanel ==
    [results |-> [i \in Items |-> [link |-> <<>>, name |-> ""]],
     transferringItems |-> {}, transferredItems |-> {},
     state |-> [i \in Items |-> "none"], h |-> [i \in Items |-> NoHandler],
     refused |-> "none", starts |-> [i \in Items |-> 0],
     ends |-> [i \in Items |-> 0], lateStore |-> FALSE]

\* What upstream answers to a store() call of the SearchPanel
SearchBodies(step) ==
    CASE step = "token"  -> {[EmptyBody EXCEPT !.stoken = v] : v \in {"", "tok1"}}
      [] step = "detail" -> {[EmptyBody EXCEPT !.list = v] : v \in SeqsUpTo(Files, 1)}
      [] step \in {"save", "share"} -> {[EmptyBody EXCEPT !.task_id = v] : v \in TaskIds}
      [] step = "saveTask" ->
            {[EmptyBody EXCEPT !.status = x, !.fids = v] :
                x \in {0, 2}, v \in {<<>>, <<"newid1">>}}
      [] step = "shareTask" ->
            {[EmptyBody EXCEPT !.status = x, !.share_id = v] : x \in {0, 2}, v \in ShareIds}
      [] step = "link"   -> {[EmptyBody EXCEPT !.share_url = v] : v \in ShareUrls}

\* The requests of a store() call of the SearchPanel during which the
\* connection may fail
SearchFailSteps == {"token"}

SearchWorld(p, d, v) == [sp |-> p, dup |-> d, svc |-> v]

\* isValidCookieFormat(cookie): the cookie has a field __pus= or __puus=
isValidCookieFormat(cookie) == cookie = "__pus=c2"

\* finally: this.transferringItems.delete(itemId)
Finally(p, item) ==
    [p EXCEPT !.transferringItems = @ \ {item}, !.h[item].pc = "done",
              !.ends[item] = @ + 1]

\* The catch block (lines 389-412): setTransferState(itemId, 'error')
SearchCatch(p, item) == Finally([p EXCEPT !.state[item] = "error"], item)

\* setTransferState(itemId, 'success'); this.transferredItems.add(itemId)
MarkTransferred(p, item) ==
    [p EXCEPT !.state[item] = "success", !.transferredItems = @ \cup {item}]

\* Variant of handleTransferRequest: an item being transferred is not turned
\* away
handleTransferRequestUnguarded(p, item) ==
    LET r == p.results[item]
        cleanName == cleanFileName(r.name)
    IN  IF trim(r.link) = <<>> \/ cleanName = "" THEN [p EXCEPT !.refused = "input"]
        ELSE IF item \in p.transferredItems THEN [p EXCEPT !.refused = "transferred"]
        ELSE [p EXCEPT !.state[item] = "transferring",
                        !.transferringItems = @ \cup {item},
                        !.starts[item] = @ + 1,
                        !.h[item] = [NoHandler EXCEPT !.pc = "dup", !.link = r.link,
                                                      !.cleanName = cleanName]]

\* handleTransferRequest(link, name, itemId) up to its first await (lines
\* 286-323): the four checks, then checkDuplicate(cleanName, link) is called
handleTransferRequest(p, item) ==
    LET r == p.results[item]
        cleanName == cleanFileName(r.name)
    IN  IF trim(r.link) = <<>> \/ cleanName = "" THEN [p EXCEPT !.refused = "input"]
        ELSE IF item \in p.transferringItems THEN [p EXCEPT !.refused = "busy"]
        ELSE IF item \in p.transferredItems THEN [p EXCEPT !.refused = "transferred"]
        ELSE [p EXCEPT !.state[item] = "transferring",
                        !.transferringItems = @ \cup {item},
                        !.starts[item] = @ + 1,
                        !.h[item] = [NoHandler EXCEPT !.pc = "dup", !.link = r.link,
                                                      !.cleanName = cleanName]]


\* fileExistsByShareLink() when its requests are answered: an index or the
\* full scan finds the link
LinkFound(db, shareLink) ==
    \/ \E ix \in LinkIndexes : IndexFinds(db, ix, shareLink)
    \/ ScanFinds(db, shareLink)

\* addFile(fileData): the record it adds
addFile(fileData) ==
    LET link == IF fileData.shareUrl # <<>> THEN fileData.shareUrl ELSE fileData.shareLink
    IN  [fileName |-> fileData.fileName, shareLink |-> link, shareUrl |-> link,
         originalUrl |-> fileData.originalUrl]

\* The record saveTransferRecord(result, originalLink, fileName) hands to
\* addFile()
saveTransferRecord(result, originalLink, fileName) ==
    [fileName |-> fileName, originalUrl |-> originalLink,
     shareUrl |-> result.newShareLink, shareLink |-> result.newShareLink]

\* Lines 323-367: checkDuplicate() has returned or thrown (`how` is "ok",
\* "linkFailed" when its link lookup failed, or "threw"); a file not known
\* gets the cookie read, a service created and performTransfer() called,
\* which calls store(link, callback)
AfterSearchDup(p, d, v, item, how) ==
    LET h == p.h[item]
        cookie == v.defaultCookie
        verdict == Classify(NameFound(d.db, h.cleanName),
                            how = "ok" /\ LinkFound(d.db, h.link))
        v1 == createQuarkService(v, cookie)
    IN  IF how = "threw" THEN SearchWorld(SearchCatch(p, item), d, v)
        ELSE IF verdict.exists
        THEN SearchWorld(Finally(MarkTransferred(p, item), item), d, v)
        ELSE IF cookie = "" THEN SearchWorld(SearchCatch(p, item), d, v)
        ELSE IF ~isValidCookieFormat(cookie) THEN SearchWorld(SearchCatch(p, item), d, v1)
        ELSE SearchWorld([p EXCEPT !.h[item].pc = "store", !.h[item].service = v1.quark,
                                   !.h[item].s = Start(h.link, "ok", FALSE, FALSE),
                                   !.lateStore = @ \/ item \in p.transferredItems],
                         d, v1)

\* Variant of Advance: the locals of store() are fields of an object every
\* running call shares
AdvanceSharedLocals(p, item, s1, e) ==
    [p EXCEPT !.h = [k \in Items |->
                        IF k = item THEN [p.h[k] EXCEPT !.s = s1, !.script = @ \o e]
                        ELSE IF p.h[k].pc = "store" /\ p.h[k].s.pc # "done"
                        THEN [p.h[k] EXCEPT !.s.loc = s1.loc]
                        ELSE p.h[k]]]

\* The call of store() of the handler of `item` goes on to its next await and
\* is then in s1: its locals are its own (the `const`s of lines 129-166);
\* e is <<>>, or <<what request() returned to it>>
Advance(p, item, s1, e) == [p EXCEPT !.h[item].s = s1, !.h[item].script = @ \o e]

\* Lines 367-388 and performTransfer(): store() has settled; a failure is
\* thrown, a success is handed to saveTransferRecord(), which calls addFile()
AfterPerformTransfer(p, d, v, item) ==
    LET out == p.h[item].s.outcome[1]
    IN  IF out.settled = "rejected" \/ ~out.success
        THEN SearchWorld(SearchCatch([p EXCEPT !.h[item].s = Idle, !.h[item].script = <<>>],
                                     item), d, v)
        ELSE SearchWorld([p EXCEPT !.h[item].pc = "save", !.h[item].s = Idle,
                                   !.h[item].script = <<>>,
                                   !.h[item].result = <<[newShareLink |-> out.data[1].shareLink,
                                                         fileId |-> out.data[1].fileId]>>],
                         d, v)

\* addFile() has resolved or rejected; saveTransferRecord() swallows the
\* rejection (lines 520-525), and lines 374-376 mark the item as transferred
AfterSaveRecord(p, d, v, item, ok) ==
    LET h == p.h[item]
        record == addFile(saveTransferRecord(h.result[1], h.link, h.cleanName))
        d1 == IF ok THEN [d EXCEPT !.db = @ \cup {record}] ELSE d
    IN  SearchWorld(Finally(MarkTransferred(p, item), item), d1, v)

-----------------------------------------------------------------------------
(* exportData(), clearAllData(), importData() *)

(***************************************************************************)
(* Fields of bk                                                            *)
(*   pc           "idle" | "exported" | "cleared" | "importing" (between   *)
(*                two iterations of importData()) | "done"                 *)
(*   data         the `data` of the object exportData() returned           *)
(*   k            the records of `data` importData() has gone through      *)
(*   importCount  the local importCount                                    *)
(* History fields                                                          *)
(*   original     the store as it was when exportData() read it            *)
(*   failed       a request of importData() has failed and was ignored     *)
(***************************************************************************)
NoBackup ==
    [pc |-> "idle", data |-> <<>>, k |-> 0, importCount |-> 0, original |-> {},
     failed |-> FALSE]

\* store.getAll(): the records in the order of their keys, which is the order
\* they were added in
Listings(db) ==
    {f \in [1..Cardinality(db) -> db] : \A i, j \in 1..Cardinality(db) : f[i] = f[j] => i = j}

\* exportData(): { version, exportTime, data: files }
exportData(b, files) == [b EXCEPT !.pc = "exported", !.data = files]

\* clearAllData(): store.clear()
clearAllData(d) == [d EXCEPT !.db = {}]

\* One iteration of the loop of importData(): fileExists(fileData.fileName),
\* then insertFile() of four fields of the record when the name is not there;
\* a request that fails throws into the empty catch block
importRecord(d, b, nameOk, insertOk) ==
    LET fileData == b.data[b.k + 1]
        exists == NameFound(d.db, fileData.fileName)
        inserted == nameOk /\ ~exists /\ insertOk
        b1 == [b EXCEPT !.k = @ + 1,
                        !.importCount = IF inserted THEN @ + 1 ELSE @,
                        !.failed = @ \/ ~nameOk \/ (~exists /\ ~insertOk),
                        !.pc = IF b.k + 1 = Len(b.data) THEN "done" ELSE "importing"]
    IN  [dup |-> IF inserted THEN [d EXCEPT !.db = @ \cup {insertFile(fileData)}] ELSE d,
         bk |-> b1]

\* importData(importData) up to its first await: `data` is an array
importData(b) == [b EXCEPT !.pc = IF Len(b.data) = 0 THEN "done" ELSE "importing"]

\* The object checkDuplicate(fileName, shareLink) returns on the store db when
\* its requests succeed
Verdict(db, fileName, shareLink) ==
    Classify(NameFound(db, fileName), LinkFound(db, shareLink))

-----------------------------------------------------------------------------
(* The CORS proxy *)

(***************************************************************************)
(* Fields of px                                                            *)
(*   pc     "idle" | "body" (handleSearchRequest collects the request      *)
(*          body) | "forwarded" (the request to the drive API is pending)  *)
(*          | "search" (the request to the search API is pending) |        *)
(*          "responded" | "threw" (a callback threw before any response)   *)
(*   req    the request: its Origin header ("" when it has none), method,  *)
(*          path and what its body holds                                   *)
(*   acao   the Access-Control-Allow-Origin set with res.setHeader()       *)
(*   resp   <<>> or <<the status and the Access-Control-Allow-Origin       *)
(*          header of the response sent>>                                  *)
(***************************************************************************)

\* The third entry stands for the placeholder of the deployer's own domain
ALLOWED_ORIGINS == <<"http://localhost:3000", "http://127.0.0.1:5501", "own-domain">>

Includes(list, x) == \E k \in 1..Len(list) : list[k] = x

\* The Origin header of a request: none, the three allowed, another site
Origins == {""} \cup {ALLOWED_ORIGINS[k] : k \in 1..Len(ALLOWED_ORIGINS)}
               \cup {"https://other.example"}

Methods == {"OPTIONS", "GET", "POST"}

HealthPath == "/health"
SearchPath == "/api/search"
DrivePath == "/1/clouddrive/share/sharepage/token"

ProxyPaths == {HealthPath, SearchPath, DrivePath}

\* The body of a request: JSON with q, JSON without q, not JSON
RequestBodies == {"q", "no-q", "not-json"}

\* The status of an upstream response
UpstreamStatuses == {200, 403}

NoProxy ==
    [pc |-> "idle", req |-> [origin |-> "", method |-> "", path |-> "", body |-> ""],
     acao |-> "", resp |-> <<>>]

\* res.writeHead(status, headers) and res.end(): headers passed to writeHead
\* replace those set with setHeader(); acao = "" when writeHead passes none
Respond(x, status, acao) ==
    [x EXCEPT !.pc = "responded",
              !.resp = <<[status |-> status, acao |-> IF acao = "" THEN x.acao ELSE acao]>>]

\* Lines 244-250: handleSearchRequest() up to the end of the request body
handleSearchRequest(x) ==
    IF x.req.method # "POST" THEN Respond(x, 405, "") ELSE [x EXCEPT !.pc = "body"]

\* Lines 110-214: createRequestHandler(req, res) up to its first callback
createRequestHandler(x, req) ==
    LET allowedOrigin == IF Includes(ALLOWED_ORIGINS, req.origin) THEN req.origin
                         ELSE ALLOWED_ORIGINS[1]
        x1 == [x EXCEPT !.req = req, !.acao = allowedOrigin]
    IN  IF req.method = "OPTIONS" THEN Respond(x1, 200, "")
        ELSE IF req.path = HealthPath THEN Respond(x1, 200, "")
        ELSE IF req.path = SearchPath THEN handleSearchRequest(x1)
        ELSE [x1 EXCEPT !.pc = "forwarded"]

\* Lines 258-280: the body has arrived; a body that is not JSON or has no q
\* is answered with 400, another one is forwarded to the search API
OnBodyEnd(x) ==
    IF x.req.body = "q" THEN [x EXCEPT !.pc = "search"] ELSE Respond(x, 400, "")

\* Lines 188-203: the drive API has answered; the response headers are the
\* upstream ones with Access-Control-Allow-Origin = origin.  Without an Origin
\* header the value is undefined and writeHead() throws.
OnDriveResponse(x, status) ==
    IF x.req.origin = "" THEN [x EXCEPT !.pc = "threw"]
    ELSE Respond(x, status, x.req.origin)

\* Lines 309-317: the search API has answered
OnSearchResponse(x, status) == Respond(x, status, "*")

-----------------------------------------------------------------------------
(* Actions *)

\* A caller calls store(url, progressCallback)
StoreCall ==
    /\ st.pc = "idle"
    /\ \E u \in Urls, k \in cbKinds : \E t1 \in Throws(k), t2 \in Throws(k) :
          st' = Start(u, k, t1, t2)
    /\ UNCHANGED <<cbKinds, dup, tp, srch, lp, sp, svc, bk, px>>

\* The pending fetch resolves with a 2xx response whose JSON parses
FetchOk ==
    /\ st.phase = "fetching"
    /\ \E body \in Bodies(st.pc) : \E t1 \in Throws(st.cb), t2 \in Throws(st.cb) :
          st' = Resume(Finish(st, "returned"), body, FALSE, t1, t2)
    /\ UNCHANGED <<cbKinds, dup, tp, srch, lp, sp, svc, bk, px>>

\* The pending fetch attempt throws inside the try block of request()
FetchFail ==
    /\ st.phase = "fetching"
    /\ \E kind \in ErrKinds : \E t1 \in Throws(st.cb), t2 \in Throws(st.cb) :
          st' = IF RetriesLeft(st) THEN Backoff(Failed(st, kind))
                ELSE Resume(Finish(Failed(st, kind), "threw"), EmptyBody, TRUE, t1, t2)
    /\ UNCHANGED <<cbKinds, dup, tp, srch, lp, sp, svc, bk, px>>

\* The backoff sleep of request() is over
BackoffElapses ==
    /\ st.phase = "backoff"
    /\ st' = Retry(st)
    /\ UNCHANGED <<cbKinds, dup, tp, srch, lp, sp, svc, bk, px>>

\* The sleep between two polls of task() is over
PollDelayElapses ==
    /\ st.phase = "pollwait"
    /\ \E t1 \in Throws(st.cb), t2 \in Throws(st.cb) : st' = NextPoll(st, t1, t2)
    /\ UNCHANGED <<cbKinds, dup, tp, srch, lp, sp, svc, bk, px>>

\* A caller calls checkDuplicate(fileName, shareLink)
DupCall ==
    /\ dup.pc = "idle"
    /\ \E n \in DupNames, l \in DupLinks, txThrows \in BOOLEAN :
          dup' = checkDuplicate(dup, n, l, txThrows)
    /\ UNCHANGED <<st, cbKinds, tp, srch, lp, sp, svc, bk, px>>

\* The request of fileExists() succeeds or errs
NameLookupDone ==
    /\ dup.name = "pending"
    /\ \E ok \in BOOLEAN : dup' = Joined(fileExists(dup, ok))
    /\ UNCHANGED <<st, cbKinds, tp, srch, lp, sp, svc, bk, px>>

\* The request of one checkWithIndex() succeeds or errs
IndexLookupDone ==
    /\ \E ix \in LinkIndexes, ok \in BOOLEAN :
          /\ dup.idx[ix] = "pending"
          /\ dup' = Joined(AfterIndexes(checkWithIndex(dup, ix, ok)))
    /\ UNCHANGED <<st, cbKinds, tp, srch, lp, sp, svc, bk, px>>

\* The getAll() request of the full scan succeeds or errs
ScanDone ==
    /\ dup.scan = "pending"
    /\ \E ok \in BOOLEAN : dup' = Joined(getAllDone(dup, ok))
    /\ UNCHANGED <<st, cbKinds, tp, srch, lp, sp, svc, bk, px>>

\* The transfer button is clicked (one handler run is followed to its end)
HandleTransfer ==
    /\ tp.pc = "idle"
    /\ \E batch \in BOOLEAN, url \in Urls, links \in LinkLists, cookie \in {"", "c1"} :
          LET w == handleTransfer(st, dup, tp, batch, url, links, cookie)
          IN  st' = w.st /\ dup' = w.dup /\ tp' = w.tp
    /\ UNCHANGED <<cbKinds, srch, lp, sp, svc, bk, px>>

\* The transfer button is clicked on the panel as its inputs have left it, at
\* any moment until a handler has ended
Click ==
    /\ tp.pc # "done"
    /\ \E cookie \in {"", "c1"} :
          LET w == handleTransfer(st, dup, tp, tp.isBatchMode, tp.shareUrl,
                                  tp.detectedLinks, cookie)
          IN  st' = w.st /\ dup' = w.dup /\ tp' = w.tp
    /\ UNCHANGED <<cbKinds, srch, lp, sp, svc, bk, px>>

\* An input event is handled between two steps of a handler, or before one
InputArrives(t) ==
    /\ tp.pc # "done" /\ tp.events < MaxEvents
    /\ tp' = [t EXCEPT !.events = @ + 1]
    /\ UNCHANGED <<st, cbKinds, dup, srch, lp, sp, svc, bk, px>>

\* The text of the batch box changes
BatchInput == \E links \in TypedLists : InputArrives(handleBatchInput(tp, links))

\* The text of the single-link box changes
SingleUrlInput == \E url \in TypedUrls : InputArrives(handleSingleUrlInput(tp, url))

\* The clear-batch button is clicked
ClearBatchClicked == InputArrives(clearBatchInput(tp))

\* The clear button is clicked
ClearFormClicked == InputArrives(clearForm(tp))

\* The transfer button is clicked for OriginalUrl in the single-link box, for
\* the first time or again after the handler has ended
RepeatTransfer ==
    /\ tp.pc = "idle" \/ (tp.pc = "done" /\ Len(tp.earlier) + Len(tp.itemLog) < MaxAttempts)
    /\ LET w == handleTransfer(st, dup, tp, FALSE, OriginalUrl, <<>>, "c1")
       IN  st' = w.st /\ dup' = w.dup /\ tp' = w.tp
    /\ UNCHANGED <<cbKinds, srch, lp, sp, svc, bk, px>>

\* While a handler runs, the pending fetch resolves with a 2xx response
PanelFetchOk ==
    /\ tp.pc \in {"info", "store"} /\ st.phase = "fetching"
    /\ \E body \in PanelBodies(st.pc) :
          /\ body.status = 0 => st.i < MaxRunningPolls
          /\ st' = IF tp.pc = "info" THEN ResumeInfo(Finish(st, "returned"), body, FALSE)
                ELSE Resume(Finish(st, "returned"), body, FALSE, FALSE, FALSE)
    /\ UNCHANGED <<cbKinds, dup, tp, srch, lp, sp, svc, bk, px>>

\* While a handler runs, the pending fetch attempt throws
PanelFetchFail ==
    /\ tp.pc \in {"info", "store"} /\ st.phase = "fetching"
    /\ st' = IF RetriesLeft(st) THEN Backoff(Failed(st, "network"))
             ELSE LET s1 == Finish(Failed(st, "network"), "threw")
                  IN  IF tp.pc = "info" THEN ResumeInfo(s1, EmptyBody, TRUE)
                      ELSE Resume(s1, EmptyBody, TRUE, FALSE, FALSE)
    /\ UNCHANGED <<cbKinds, dup, tp, srch, lp, sp, svc, bk, px>>

\* While store() runs for a handler, the sleep between two polls is over
PanelPollDelayElapses ==
    /\ tp.pc = "store" /\ st.phase = "pollwait"
    /\ st' = NextPoll(st, FALSE, FALSE)
    /\ UNCHANGED <<cbKinds, dup, tp, srch, lp, sp, svc, bk, px>>

\* extractFileName() has settled: the handler resumes
ExtractReturned ==
    /\ tp.pc = "info" /\ st.pc = "done"
    /\ \E txThrows \in BOOLEAN :
          LET w == AfterExtract(st, dup, tp, txThrows)
          IN  st' = w.st /\ dup' = w.dup /\ tp' = w.tp
    /\ UNCHANGED <<cbKinds, srch, lp, sp, svc, bk, px>>

\* checkDuplicate() has settled: the handler resumes
DupReturned ==
    /\ tp.pc = "dup" /\ dup.pc \in {"returned", "threw"}
    /\ LET w == AfterDup(st, dup, tp)
       IN  st' = w.st /\ dup' = w.dup /\ tp' = w.tp
    /\ UNCHANGED <<cbKinds, srch, lp, sp, svc, bk, px>>

\* store() has settled: the handler resumes
StoreReturned ==
    /\ tp.pc = "store" /\ st.pc = "done"
    /\ LET w == AfterStore(st, dup, tp)
       IN  st' = w.st /\ dup' = w.dup /\ tp' = w.tp
    /\ UNCHANGED <<cbKinds, srch, lp, sp, svc, bk, px>>

\* The add request of insertFile() succeeds or errs
InsertDone ==
    /\ tp.pc = "insert"
    /\ \E ok \in BOOLEAN :
          LET w == AfterInsert(st, dup, tp, ok)
          IN  st' = w.st /\ dup' = w.dup /\ tp' = w.tp
    /\ UNCHANGED <<cbKinds, srch, lp, sp, svc, bk, px>>

\* The sleep between two links of a batch is over
PauseElapses ==
    /\ tp.pc = "pause"
    /\ LET w == NextIteration(st, dup, [tp EXCEPT !.slept = TRUE])
       IN  st' = w.st /\ dup' = w.dup /\ tp' = w.tp
    /\ UNCHANGED <<cbKinds, srch, lp, sp, svc, bk, px>>

\* No method has been called yet
Quiet == st.pc = "idle" /\ tp.pc = "idle" /\ tp.shown = "none" /\ srch.pc = "idle"

\* store(url) is called, by itself
InputStoreCall == Quiet /\ StoreCall

\* getFileInfo(url) is called, by itself
InputInfoCall ==
    /\ Quiet
    /\ \E u \in Urls : st' = getFileInfo(u)
    /\ UNCHANGED <<cbKinds, dup, tp, srch, lp, sp, svc, bk, px>>

\* The transfer button is clicked with `url` in the single-link box
InputSingleTransfer ==
    /\ Quiet
    /\ \E url \in Urls, cookie \in {"", "c1"} :
          LET w == handleTransfer(st, dup, tp, FALSE, url, <<>>, cookie)
          IN  st' = w.st /\ dup' = w.dup /\ tp' = w.tp
    /\ UNCHANGED <<cbKinds, srch, lp, sp, svc, bk, px>>

\* search({q}) is called
SearchCall ==
    /\ Quiet
    /\ \E q \in Queries : srch' = search(q)
    /\ UNCHANGED <<st, cbKinds, dup, tp, lp, sp, svc, bk, px>>

\* The fetch of search() ends
SearchRequestDone ==
    /\ srch.pc = "fetching"
    /\ \E end \in SearchEnds : srch' = AfterSearchRequest(srch, end)
    /\ UNCHANGED <<st, cbKinds, dup, tp, lp, sp, svc, bk, px>>

\* store() runs by itself and a step of it happens
DirectStoreStep ==
    /\ st.op = "store" /\ tp.pc = "idle"
    /\ FetchOk \/ FetchFail \/ PollDelayElapses

\* getFileInfo() runs by itself and its pending fetch resolves
InfoFetchOk ==
    /\ st.op = "info" /\ tp.pc = "idle" /\ st.phase = "fetching"
    /\ \E body \in Bodies(st.pc) : st' = ResumeInfo(Finish(st, "returned"), body, FALSE)
    /\ UNCHANGED <<cbKinds, dup, tp, srch, lp, sp, svc, bk, px>>

\* getFileInfo() runs by itself and its pending fetch attempt throws
InfoFetchFail ==
    /\ st.op = "info" /\ tp.pc = "idle" /\ st.phase = "fetching"
    /\ \E kind \in ErrKinds :
          st' = IF RetriesLeft(st) THEN Backoff(Failed(st, kind))
                ELSE ResumeInfo(Finish(Failed(st, kind), "threw"), EmptyBody, TRUE)
    /\ UNCHANGED <<cbKinds, dup, tp, srch, lp, sp, svc, bk, px>>

\* getIdFromUrl(text) is called
GetIdFromUrl ==
    /\ "getIdFromUrl" \notin lp.calls
    /\ lp' = [lp EXCEPT !.calls = @ \cup {"getIdFromUrl"}, !.id = getIdFromUrl(lp.text)]
    /\ UNCHANGED <<st, cbKinds, dup, tp, srch, sp, svc, bk, px>>

\* isValidQuarkUrl(text) is called
IsValidQuarkUrl ==
    /\ "isValidQuarkUrl" \notin lp.calls
    /\ lp' = [lp EXCEPT !.calls = @ \cup {"isValidQuarkUrl"},
                        !.valid = isValidQuarkUrl(lp.text)]
    /\ UNCHANGED <<st, cbKinds, dup, tp, srch, sp, svc, bk, px>>

\* extractQuarkLinks(text) is called
ExtractQuarkLinks ==
    /\ "extractQuarkLinks" \notin lp.calls
    /\ lp' = [lp EXCEPT !.calls = @ \cup {"extractQuarkLinks"},
                        !.links = extractQuarkLinks(lp.text)]
    /\ UNCHANGED <<st, cbKinds, dup, tp, srch, sp, svc, bk, px>>

\* The transfer button of a search result is clicked
SearchClick ==
    /\ \E item \in Items :
          /\ sp.starts[item] < MaxClicks
          /\ sp' = handleTransferRequest(sp, item)
    /\ UNCHANGED <<st, cbKinds, dup, tp, srch, lp, svc, bk, px>>

\* checkDuplicate() has settled for a handler of the SearchPanel, which
\* resumes and reads the cookie from the settings
SearchDupReturned ==
    /\ \E item \in Items, how \in {"ok", "linkFailed", "threw"} :
          /\ sp.h[item].pc = "dup"
          /\ LET w == AfterSearchDup(sp, dup, svc, item, how)
             IN  sp' = w.sp /\ dup' = w.dup /\ svc' = w.svc
    /\ UNCHANGED <<st, cbKinds, tp, srch, lp, bk, px>>

\* The pending fetch of a store() call of the SearchPanel resolves with a 2xx
\* response
SearchFetchOk ==
    /\ \E item \in Items :
          LET s == sp.h[item].s
          IN  /\ sp.h[item].pc = "store" /\ s.phase = "fetching"
              /\ \E body \in SearchBodies(s.pc) :
                    /\ body.status = 0 => s.i < MaxRunningPolls
                    /\ sp' = Advance(sp, item,
                                     Resume(Finish(s, "returned"), body, FALSE, FALSE, FALSE),
                                     <<[step |-> s.pc, body |-> body, threw |-> FALSE]>>)
    /\ UNCHANGED <<st, cbKinds, dup, tp, srch, lp, svc, bk, px>>

\* The pending fetch attempt of a store() call of the SearchPanel throws
SearchFetchFail ==
    /\ \E item \in Items :
          LET s == sp.h[item].s
          IN  /\ sp.h[item].pc = "store" /\ s.phase = "fetching"
              /\ s.pc \in SearchFailSteps
              /\ sp' = IF RetriesLeft(s)
                       THEN Advance(sp, item, Backoff(Failed(s, "network")), <<>>)
                       ELSE Advance(sp, item,
                                    Resume(Finish(Failed(s, "network"), "threw"), EmptyBody,
                                           TRUE, FALSE, FALSE),
                                    <<[step |-> s.pc, body |-> EmptyBody, threw |-> TRUE]>>)
    /\ UNCHANGED <<st, cbKinds, dup, tp, srch, lp, svc, bk, px>>

\* A sleep of a store() call of the SearchPanel is over: the backoff of
\* request(), or the delay between two polls of task()
SearchTimerFires ==
    /\ \E item \in Items :
          LET s == sp.h[item].s
          IN  /\ sp.h[item].pc = "store" /\ s.phase \in {"backoff", "pollwait"}
              /\ sp' = Advance(sp, item,
                               IF s.phase = "backoff" THEN Retry(s)
                               ELSE NextPoll(s, FALSE, FALSE), <<>>)
    /\ UNCHANGED <<st, cbKinds, dup, tp, srch, lp, svc, bk, px>>

\* store() has settled for a handler of the SearchPanel, which resumes
SearchStoreReturned ==
    /\ \E item \in Items :
          /\ sp.h[item].pc = "store" /\ sp.h[item].s.pc = "done"
          /\ LET w == AfterPerformTransfer(sp, dup, svc, item)
             IN  sp' = w.sp /\ dup' = w.dup /\ svc' = w.svc
    /\ UNCHANGED <<st, cbKinds, tp, srch, lp, bk, px>>

\* The add request of addFile() succeeds or errs
SearchSaveDone ==
    /\ \E item \in Items, ok \in BOOLEAN :
          /\ sp.h[item].pc = "save"
          /\ LET w == AfterSaveRecord(sp, dup, svc, item, ok)
             IN  sp' = w.sp /\ dup' = w.dup /\ svc' = w.svc
    /\ UNCHANGED <<st, cbKinds, tp, srch, lp, bk, px>>

\* The proxy settings dialog is saved
SaveProxySettings ==
    /\ \E url \in {"", CustomProxy}, checked \in BOOLEAN :
          svc' = saveProxySettings(svc, url, checked)
    /\ UNCHANGED <<st, cbKinds, dup, tp, srch, lp, sp, bk, px>>

\* A panel asks the application for a service
CreateQuarkService ==
    /\ \E cookie \in Cookies \ {""} : svc' = createQuarkService(svc, cookie)
    /\ UNCHANGED <<st, cbKinds, dup, tp, srch, lp, sp, bk, px>>

\* The service created last sends a request
ServiceRequest ==
    /\ svc.quark # <<>>
    /\ \E path \in Paths :
          svc' = [svc EXCEPT !.wire = <<[req |-> request(svc.quark[1], path),
                                        by |-> svc.quark[1]]>>]
    /\ UNCHANGED <<st, cbKinds, dup, tp, srch, lp, sp, bk, px>>

\* The callers of the repository: TransferPanel's batch passes no callback, its
\* single transfer and SearchPanel pass one that does not throw
Init ==
    /\ st = Idle
    /\ cbKinds = {"none", "ok"}
    /\ dup = NoDup
    /\ tp = NoPanel
    /\ srch = NoSearch
    /\ lp = NoParse
    /\ sp = NoSearchPanel
    /\ svc = NoService
    /\ bk = NoBackup
    /\ px = NoProxy

Next == StoreCall \/ FetchOk \/ FetchFail \/ BackoffElapses \/ PollDelayElapses

Spec == Init /\ [][Next]_vars

\* store() where every fetch attempt ends, with a response or an error (the
\* browser's fetch settles, the proxy answers or times out), and every timer
\* set by request() or task() fires
FairSpec ==
    /\ Init /\ [][Next]_vars
    /\ WF_vars(FetchOk \/ FetchFail)
    /\ WF_vars(BackoffElapses)
    /\ WF_vars(PollDelayElapses)

\* store() is a public method: a caller may also pass a callback that throws
InitAnyCallback ==
    /\ st = Idle
    /\ cbKinds = {"none", "ok", "throws"}
    /\ dup = NoDup
    /\ tp = NoPanel
    /\ srch = NoSearch
    /\ lp = NoParse
    /\ sp = NoSearchPanel
    /\ svc = NoService
    /\ bk = NoBackup
    /\ px = NoProxy

SpecAnyCallback == InitAnyCallback /\ [][Next]_vars

\* checkDuplicate() on any file store of at most MaxRecords records
InitDup ==
    /\ st = Idle
    /\ cbKinds = {"none", "ok"}
    /\ dup \in {[NoDup EXCEPT !.db = db, !.indexNames = ixs] : db \in DBs, ixs \in IndexSets}
    /\ tp = NoPanel
    /\ srch = NoSearch
    /\ lp = NoParse
    /\ sp = NoSearchPanel
    /\ svc = NoService
    /\ bk = NoBackup
    /\ px = NoProxy

NextDup == DupCall \/ NameLookupDone \/ IndexLookupDone \/ ScanDone

DupSpec == InitDup /\ [][NextDup]_vars

\* The TransferPanel with its services
InitPanel ==
    /\ st = Idle
    /\ cbKinds = {"none", "ok"}
    /\ dup \in {[NoDup EXCEPT !.db = db, !.indexNames = LinkIndexes] : db \in PanelDBs}
    /\ tp = NoPanel
    /\ srch = NoSearch
    /\ lp = NoParse
    /\ sp = NoSearchPanel
    /\ svc = NoService
    /\ bk = NoBackup
    /\ px = NoProxy

NextPanel ==
    \/ HandleTransfer \/ PanelFetchOk \/ PanelFetchFail \/ BackoffElapses
    \/ PanelPollDelayElapses \/ ExtractReturned \/ NameLookupDone \/ IndexLookupDone
    \/ ScanDone \/ DupReturned \/ StoreReturned \/ InsertDone \/ PauseElapses

PanelSpec == InitPanel /\ [][NextPanel]_vars

\* The TransferPanel asked to transfer one link more than once, from an empty
\* store
InitRepeat ==
    /\ st = Idle
    /\ cbKinds = {"none", "ok"}
    /\ dup = [NoDup EXCEPT !.indexNames = LinkIndexes]
    /\ tp = NoPanel
    /\ srch = NoSearch
    /\ lp = NoParse
    /\ sp = NoSearchPanel
    /\ svc = NoService
    /\ bk = NoBackup
    /\ px = NoProxy

NextRepeat ==
    \/ RepeatTransfer \/ PanelFetchOk \/ PanelFetchFail \/ BackoffElapses
    \/ PanelPollDelayElapses \/ ExtractReturned \/ NameLookupDone \/ IndexLookupDone
    \/ ScanDone \/ DupReturned \/ StoreReturned \/ InsertDone

RepeatSpec == InitRepeat /\ [][NextRepeat]_vars

\* The TransferPanel with its input events arriving at any moment, from an
\* empty store and a network that answers
NextEvent ==
    \/ Click \/ BatchInput \/ SingleUrlInput \/ ClearBatchClicked \/ ClearFormClicked
    \/ PanelFetchOk \/ PanelPollDelayElapses \/ ExtractReturned \/ NameLookupDone
    \/ IndexLookupDone \/ ScanDone \/ DupReturned \/ StoreReturned \/ InsertDone
    \/ PauseElapses

EventSpec == InitRepeat /\ [][NextEvent]_vars

\* One call of a method that takes a link or a search term, on any input
NextInput ==
    \/ InputStoreCall \/ InputInfoCall \/ InputSingleTransfer \/ SearchCall
    \/ DirectStoreStep \/ InfoFetchOk \/ InfoFetchFail \/ BackoffElapses
    \/ SearchRequestDone
    \/ PanelFetchOk \/ PanelFetchFail \/ PanelPollDelayElapses \/ ExtractReturned
    \/ NameLookupDone \/ IndexLookupDone \/ ScanDone \/ DupReturned \/ StoreReturned
    \/ InsertDone

InputSpec == InitRepeat /\ [][NextInput]_vars

\* The link functions applied to any text of at most MaxPieces pieces
InitLink ==
    /\ st = Idle
    /\ cbKinds = {"none", "ok"}
    /\ dup = NoDup
    /\ tp = NoPanel
    /\ srch = NoSearch
    /\ lp \in {[NoParse EXCEPT !.text = t] : t \in Texts}
    /\ sp = NoSearchPanel
    /\ svc = NoService
    /\ bk = NoBackup
    /\ px = NoProxy

NextLink == GetIdFromUrl \/ IsValidQuarkUrl \/ ExtractQuarkLinks

LinkSpec == InitLink /\ [][NextLink]_vars

\* The SearchPanel showing a result list, with its services
InitSearchPanel ==
    /\ st = Idle
    /\ cbKinds = {"none", "ok"}
    /\ dup \in {[NoDup EXCEPT !.db = db, !.indexNames = LinkIndexes] : db \in PanelDBs}
    /\ tp = NoPanel
    /\ srch = NoSearch
    /\ lp = NoParse
    /\ sp \in {[NoSearchPanel EXCEPT !.results = r] : r \in ResultLists}
    /\ svc \in {[NoService EXCEPT !.defaultCookie = c] : c \in Cookies}
    /\ bk = NoBackup
    /\ px = NoProxy

NextSearchPanel ==
    \/ SearchClick \/ SearchDupReturned \/ SearchFetchOk \/ SearchFetchFail
    \/ SearchTimerFires \/ SearchStoreReturned \/ SearchSaveDone

SearchPanelSpec == InitSearchPanel /\ [][NextSearchPanel]_vars

\* The data is exported
ExportData ==
    /\ bk.pc = "idle"
    /\ \E files \in Listings(dup.db) :
          bk' = [exportData(bk, files) EXCEPT !.original = dup.db]
    /\ UNCHANGED <<st, cbKinds, dup, tp, srch, lp, sp, svc, px>>

\* The store is cleared after the export
ClearAllData ==
    /\ bk.pc = "exported"
    /\ dup' = clearAllData(dup)
    /\ bk' = [bk EXCEPT !.pc = "cleared"]
    /\ UNCHANGED <<st, cbKinds, tp, srch, lp, sp, svc, px>>

\* importData() is called with the exported object
ImportData ==
    /\ bk.pc = "cleared"
    /\ bk' = importData(bk)
    /\ UNCHANGED <<st, cbKinds, dup, tp, srch, lp, sp, svc, px>>

\* importData() goes through the next record; its requests succeed or fail
ImportRecord ==
    /\ bk.pc = "importing"
    /\ \E nameOk, insertOk \in BOOLEAN :
          LET w == importRecord(dup, bk, nameOk, insertOk)
          IN  dup' = w.dup /\ bk' = w.bk
    /\ UNCHANGED <<st, cbKinds, tp, srch, lp, sp, svc, px>>

\* The record store with any content, exported, cleared and imported again
InitBackup ==
    /\ st = Idle
    /\ cbKinds = {"none", "ok"}
    /\ dup \in {[NoDup EXCEPT !.db = db, !.indexNames = LinkIndexes] : db \in DBs}
    /\ tp = NoPanel
    /\ srch = NoSearch
    /\ lp = NoParse
    /\ sp = NoSearchPanel
    /\ svc = NoService
    /\ bk = NoBackup
    /\ px = NoProxy

NextBackup == ExportData \/ ClearAllData \/ ImportData \/ ImportRecord

BackupSpec == InitBackup /\ [][NextBackup]_vars

\* The proxy receives a request
ProxyRequest ==
    /\ px.pc = "idle"
    /\ \E o \in Origins, m \in Methods, p \in ProxyPaths, b \in RequestBodies :
          px' = createRequestHandler(px, [origin |-> o, method |-> m, path |-> p, body |-> b])
    /\ UNCHANGED <<st, cbKinds, dup, tp, srch, lp, sp, svc, bk>>

\* The body of a search request has arrived
ProxyBodyEnd ==
    /\ px.pc = "body"
    /\ px' = OnBodyEnd(px)
    /\ UNCHANGED <<st, cbKinds, dup, tp, srch, lp, sp, svc, bk>>

\* The drive API answers the forwarded request
DriveResponds ==
    /\ px.pc = "forwarded"
    /\ \E status \in UpstreamStatuses : px' = OnDriveResponse(px, status)
    /\ UNCHANGED <<st, cbKinds, dup, tp, srch, lp, sp, svc, bk>>

\* The search API answers the forwarded request
SearchResponds ==
    /\ px.pc = "search"
    /\ \E status \in UpstreamStatuses : px' = OnSearchResponse(px, status)
    /\ UNCHANGED <<st, cbKinds, dup, tp, srch, lp, sp, svc, bk>>

\* The forwarded request fails (proxyReq 'error'): 500 without headers of
\* its own
UpstreamErrs ==
    /\ px.pc \in {"forwarded", "search"}
    /\ px' = Respond(px, 500, "")
    /\ UNCHANGED <<st, cbKinds, dup, tp, srch, lp, sp, svc, bk>>

\* The CORS proxy answering one request of any origin, method, path and body
InitProxy ==
    /\ st = Idle
    /\ cbKinds = {"none", "ok"}
    /\ dup = NoDup
    /\ tp = NoPanel
    /\ srch = NoSearch
    /\ lp = NoParse
    /\ sp = NoSearchPanel
    /\ svc = NoService
    /\ bk = NoBackup
    /\ px = NoProxy

NextProxy == ProxyRequest \/ ProxyBodyEnd \/ DriveResponds \/ SearchResponds \/ UpstreamErrs

ProxySpec == InitProxy /\ [][NextProxy]_vars

\* The application on any page, with any proxy settings
InitService ==
    /\ st = Idle
    /\ cbKinds = {"none", "ok"}
    /\ dup = NoDup
    /\ tp = NoPanel
    /\ srch = NoSearch
    /\ lp = NoParse
    /\ sp = NoSearchPanel
    /\ svc \in {[NoService EXCEPT !.location = l, !.enabled = e, !.custom = c,
                                  !.proxyUrl = getDefaultProxyUrl(
                                      [NoService EXCEPT !.location = l, !.custom = c])] :
                  l \in Locations, e \in BOOLEAN, c \in {"", CustomProxy}}
    /\ bk = NoBackup
    /\ px = NoProxy

NextService == SaveProxySettings \/ CreateQuarkService \/ ServiceRequest

ServiceSpec == InitService /\ [][NextService]_vars

-----------------------------------------------------------------------------
(* Properties of store() *)

IsPrefix(a, b) == Len(a) <= Len(b) /\ \A k \in 1..Len(a) : a[k] = b[k]

Last(s) == s[Len(s)]

\* A call of request() is under way (a fetch pending, or its backoff sleep)
InRequest == st.phase \in {"fetching", "backoff"}

Settled == st.outcome # <<>>

Succeeded == Settled /\ st.outcome[1].success

\* The failure result of each helper, as store() tests it on lines 135-165
FailureResult(r) ==
    CASE r.step \in {"token", "save", "share"} -> r.value = ""
      [] r.step \in {"detail", "link"} -> r.value = <<>>
      [] r.step = "saveTask"  -> r.value = <<>> \/ Len(r.value[1].fids) = 0
      [] r.step = "shareTask" -> r.value = <<>> \/ r.value[1].share_id = ""

\* C1: the steps' requests are issued in the fixed order token, detail, save,
\* save-task polls, share-create, share-task polls, share-link; a step's request
\* (and each poll) is issued only when every earlier one has returned; a
\* success outcome implies all seven steps were issued and returned, in order.
C1_FixedOrder ==
    /\ IsPrefix(st.stepLog, StepOrder)
    /\ Len(st.rets) <= Len(st.stepLog)
    /\ \A k \in 1..Len(st.rets) : st.rets[k].step = st.stepLog[k]
    /\ (InRequest \/ st.phase = "pollwait") =>
          /\ st.stepLog # <<>> /\ st.pc = Last(st.stepLog)
          /\ Len(st.rets) = Len(st.stepLog) - 1
    /\ (InRequest /\ st.pc \in TaskSteps) => st.pollResps = Len(st.polls) - 1
    /\ st.phase = "pollwait" => st.pc \in TaskSteps /\ st.pollResps = Len(st.polls)
    /\ Succeeded =>
          /\ st.stepLog = StepOrder
          /\ Len(st.rets) = Len(StepOrder)
          /\ Len(st.polls) >= 1

\* C1 witness: a transfer has succeeded after ten polls of the share job
C1_Witness == Succeeded /\ Len(st.polls) = MaxTries

\* C2: once a step has yielded its failure result, no request of a later step
\* is issued and store() has produced exactly one outcome, with success = false.
C2_FailureShortCircuits ==
    /\ \A k \in 1..Len(st.rets) :
          FailureResult(st.rets[k]) =>
              /\ k = Len(st.rets) /\ Len(st.stepLog) = k
              /\ st.pc = "done" /\ ~InRequest
              /\ Len(st.outcome) = 1
              /\ st.outcome[1].settled = "resolved" /\ ~st.outcome[1].success
    /\ (st.pc # "idle" /\ st.loc.pwdId = <<>>) =>
          /\ st.stepLog = <<>> /\ st.pc = "done"
          /\ Len(st.outcome) = 1
          /\ st.outcome[1].settled = "resolved" /\ ~st.outcome[1].success

\* C2 witness: the share job resolved without a share_id
C2_Witness ==
    /\ Len(st.rets) = 6
    /\ st.rets[6].value # <<>> /\ FailureResult(st.rets[6])
    /\ st.pc = "done"

AllStepsSucceeded ==
    /\ Len(st.rets) = Len(StepOrder)
    /\ \A k \in 1..Len(st.rets) :
          st.rets[k].step = StepOrder[k] /\ ~FailureResult(st.rets[k])

\* C3: store() returns success = true exactly when every step succeeded, and
\* then fileId is the first new top-level fid of the resolved save job, fileName
\* and fileType are those of entry 0 of the detail list, and shareLink is the
\* share_url answered to the share-link request for the share job's share_id.
C3_SuccessData ==
    /\ st.pc = "done" => (Succeeded <=> AllStepsSucceeded)
    /\ Succeeded =>
          /\ st.outcome[1].data =
                <<[fileId |-> st.loc.taskResponse[1].fids[1],
                   fileName |-> st.seen.list[1].file_name,
                   fileType |-> st.seen.list[1].file_type,
                   shareLink |-> st.seen.share_url]>>
          /\ st.sent = [NoArgs EXCEPT !.share_id = st.loc.shareTaskResponse[1].share_id]

\* C3 witness: a success whose detail list and fid list have two different entries
C3_Witness ==
    /\ Succeeded
    /\ Len(st.seen.list) = 2 /\ st.seen.list[1] # st.seen.list[2]
    /\ Len(st.loc.taskResponse[1].fids) = 2
    /\ st.loc.taskResponse[1].fids[1] # st.loc.taskResponse[1].fids[2]

\* C4: with no callback or a callback that does not throw, store() resolves
\* with an outcome {success, message[, data]} whatever upstream answers and
\* however the fetches fail; it never rejects.
C4_NeverRejects ==
    /\ st.cb \in {"none", "ok"}
    /\ st.pc = "done" => Settled
    /\ Settled =>
          /\ Len(st.outcome) = 1
          /\ st.outcome[1].settled = "resolved"
          /\ st.outcome[1].success \in BOOLEAN
          /\ Len(st.outcome[1].message) = 2
          /\ st.outcome[1].success <=> st.outcome[1].data # <<>>

\* C4 witness: a request failed three times, the last with an HTTP error
C4_Witness ==
    /\ st.pc = "done" /\ st.cb = "ok"
    /\ st.lastReq.result = "threw" /\ st.lastReq.err = "http"

\* C5: one call of task() issues at most 10 polls, and the k-th poll carries
\* retry_index = k - 1.
C5_PollBudget ==
    /\ Len(st.polls) <= 10
    /\ \A k \in 1..Len(st.polls) : st.polls[k] = k - 1
    /\ (InRequest /\ st.pc \in TaskSteps) => st.sent.retry_index = Len(st.polls) - 1

\* C5 witness: the tenth poll went unanswered by a status and task() gave up
C5_Witness == st.taskEnd = "exhausted" /\ Len(st.polls) = 10

-----------------------------------------------------------------------------
(* Properties of task() and request() *)

\* A status that says how the job ended: the field is there and is not the
\* empty value (0, the value of a job still running)
DefinitiveStatus(status) == status # -1 /\ status # 0

\* What the current (or last) call of task() returned to store()
TaskResult ==
    IF "shareTask" \in {st.stepLog[k] : k \in 1..Len(st.stepLog)}
    THEN st.loc.shareTaskResponse
    ELSE st.loc.taskResponse

\* C6: task() returns the first poll response that carries a non-empty status
\* and polls no more after it, at every position up to the tenth; when none of
\* the ten polls carries one it returns null and does not throw.
C6_FirstStatusReturned ==
    /\ st.phase = "pollwait" => ~DefinitiveStatus(st.response)
    /\ st.taskEnd = "resolved" =>
          /\ TaskResult # <<>> /\ DefinitiveStatus(TaskResult[1].status)
          /\ st.pollResps = Len(st.polls)
    /\ st.taskEnd = "exhausted" =>
          /\ TaskResult = <<>>
          /\ Len(st.polls) = 10 /\ st.pollResps = 10
          /\ Settled /\ st.outcome[1].settled = "resolved"
    /\ st.taskEnd = "none" => TaskResult = <<>> \/ st.pc = "shareTask"

\* C6 witness: the tenth poll was the first to carry a status and was returned
C6_Witness ==
    /\ st.taskEnd = "resolved" /\ Len(st.polls) = 10 /\ st.pollResps = 10
    /\ st.pc = "share"

\* The backoff sleeps of request(), in order
BackoffSeq == <<1000, 2000>>

\* C7: request() makes at most 3 fetch attempts; it returns at the first attempt
\* that succeeds; it sleeps 1 s after the first failed attempt and 2 s after the
\* second, not after the third; it throws the last error after 3 failed attempts.
C7_RetryBudget ==
    /\ st.attempt <= 3
    /\ st.phase = "fetching" =>
          st.attempt \in 1..3 /\ st.delays = SubSeq(BackoffSeq, 1, st.attempt - 1)
    /\ st.phase = "backoff" =>
          /\ st.attempt \in 1..2 /\ st.delays = SubSeq(BackoffSeq, 1, st.attempt)
          /\ st.lastError \in ErrKinds
    /\ (st.pc = "done" /\ st.lastReq.result = "threw") =>
          /\ st.attempt = 3 /\ st.delays = BackoffSeq
          /\ st.lastError \in ErrKinds /\ st.lastReq.err = st.lastError
    /\ (st.pc = "done" /\ st.lastReq.result = "returned" /\ st.taskEnd # "exhausted") =>
          st.attempt \in 1..3 /\ st.delays = SubSeq(BackoffSeq, 1, st.attempt - 1)

\* C7 witness: the share-link request succeeded at its third attempt, after a
\* timeout, and the transfer succeeded
C7_Witness ==
    /\ Succeeded /\ st.lastReq = [step |-> "link", result |-> "returned", err |-> "none"]
    /\ st.attempt = 3 /\ st.lastError = "timeout" /\ st.delays = BackoffSeq

\* C8 (as claimed): a fetch attempt that ends with a non-2xx status is not
\* followed by another attempt: the call fails after exactly one attempt.
C8_Non2xxNotRetried ==
    /\ ~(st.phase = "backoff" /\ st.lastError = "http")
    /\ (st.pc = "done" /\ st.lastReq.err = "http") => st.attempt = 1

\* C9: a fetch attempt of a poll that times out is retried with the same
\* retry_index and does not advance the poll counter: the counter equals the
\* number of polls answered, and polling ends before the tenth poll only by a
\* status or by a poll whose three attempts all failed.
C9_TimeoutKeepsPollIndex ==
    /\ (InRequest /\ st.pc \in TaskSteps) =>
          /\ st.sent.retry_index = st.i
          /\ st.pollResps = st.i
          /\ Len(st.polls) = st.i + 1
    /\ st.phase = "pollwait" => st.pollResps = st.i + 1 /\ Len(st.polls) = st.i + 1
    /\ st.taskEnd = "exhausted" => Len(st.polls) = 10 /\ st.pollResps = 10
    /\ st.taskEnd = "threw" =>
          st.lastReq.result = "threw" /\ st.lastReq.step \in TaskSteps /\ st.attempt = 3

\* C9 witness: the tenth poll is at its third attempt after a timeout
C9_Witness ==
    /\ st.pc \in TaskSteps /\ st.phase = "fetching"
    /\ st.i = 9 /\ st.attempt = 3 /\ st.lastError = "timeout"

\* C10 (as claimed): when the polling of a job runs out of attempts, the
\* outcome's message is not the one of a job that failed.
C10_ExhaustionDistinct ==
    (st.pc = "done" /\ st.taskEnd = "exhausted") =>
        st.outcome[1].message \notin
            {<<"transfer-failed", MsgSaveTask>>, <<"transfer-failed", MsgShareTask>>}

-----------------------------------------------------------------------------
(* Properties of the progress callback *)

\* The operation the callback's step number n names has completed: 1 the link
\* is parsed, 2 the token is there, 3 the detail, 4 the save job, 5 the share link
StepCompleted(n) ==
    LET ok(step) == \E k \in 1..Len(st.rets) :
                       st.rets[k].step = step /\ ~FailureResult(st.rets[k])
    IN  CASE n = 1 -> st.loc.pwdId # <<>>
          [] n = 2 -> ok("token")
          [] n = 3 -> ok("detail")
          [] n = 4 -> ok("save") /\ ok("saveTask")
          [] n = 5 -> ok("share") /\ ok("shareTask") /\ ok("link")

\* C11 (as claimed): the callback is invoked with step number N only after the
\* operation of step N has completed.
C11_CallbackAfterStep ==
    \A k \in 1..Len(st.cbLog) :
        st.cbLog[k].step \in 1..5 => StepCompleted(st.cbLog[k].step)

\* The positions of the callback invocations with step number -1
SentinelCalls == {k \in 1..Len(st.cbLog) : st.cbLog[k].step = -1}

\* C12: a call of store() that ends in failure has invoked the callback exactly
\* once with (-1, 0), as its last invocation; a call that ends in success never
\* invoked it with -1 and its last invocation is (5, 100); while store() runs
\* no invocation with -1 has happened.
C12_FailureSentinel ==
    /\ st.cb = "none" => st.cbLog = <<>>
    /\ ~Settled => SentinelCalls = {}
    /\ (Settled /\ st.cb # "none" /\ ~Succeeded) =>
          /\ Cardinality(SentinelCalls) = 1
          /\ Last(st.cbLog) = [step |-> -1, pct |-> 0]
    /\ (Succeeded /\ st.cb # "none") =>
          /\ SentinelCalls = {}
          /\ Last(st.cbLog) = [step |-> 5, pct |-> 100]

\* C12 witness: the share-link request failed after all five progress callbacks
C12_Witness ==
    /\ Settled /\ ~Succeeded /\ Len(st.cbLog) = 6
    /\ Len(st.rets) = 7 /\ st.cbLog[5] = [step |-> 5, pct |-> 80]

\* C13 (as claimed): whatever the callback does, store() resolves, and it ends
\* only because a step failed or because all steps succeeded, with the outcome
\* those steps determine.
C13_CallbackFailureIgnored ==
    /\ Settled => st.outcome[1].settled = "resolved"
    /\ st.pc = "done" =>
          \/ st.loc.pwdId = <<>> /\ ~Succeeded
          \/ st.rets # <<>> /\ FailureResult(Last(st.rets)) /\ ~Succeeded
          \/ AllStepsSucceeded /\ Succeeded

-----------------------------------------------------------------------------
(* Properties of checkDuplicate() *)

\* Some record has the file name asked for
NameInStore == \E r \in dup.db : r.fileName = dup.fileName

\* Some record has the link asked for in one of its three link fields
LinkInStore == \E r \in dup.db : dup.shareLink \in {r.shareLink, r.shareUrl, r.originalUrl}

DuplicateTypeOf(n, l) ==
    CASE n /\ l -> "both" [] n /\ ~l -> "name" [] ~n /\ l -> "link" [] OTHER -> "none"

\* C14: when its lookups are answered, checkDuplicate() returns nameExists =
\* some record has the file name, linkExists = some record has the link in
\* shareLink, shareUrl or originalUrl, exists = their disjunction, and
\* duplicateType = both / name / link / none accordingly.
C14_Verdict ==
    (dup.pc = "returned" /\ ~dup.linkFailed) =>
        LET v == dup.verdict[1]
        IN  /\ v.nameExists = NameInStore
            /\ v.linkExists = LinkInStore
            /\ v.exists = (NameInStore \/ LinkInStore)
            /\ v.duplicateType = DuplicateTypeOf(NameInStore, LinkInStore)

\* C14 witness: a link found only under the alias originalUrl, by the full
\* scan of a store without link indexes, and the name not found
C14_Witness ==
    /\ dup.pc = "returned" /\ dup.indexNames = {} /\ dup.scan = "done"
    /\ dup.verdict[1].duplicateType = "link"
    /\ \A r \in dup.db : r.shareLink # dup.shareLink /\ r.shareUrl # dup.shareLink

\* C15 (as claimed): a lookup that fails counts as not found and
\* checkDuplicate() returns a verdict; it does not throw.
C15_LookupFailureSwallowed ==
    /\ dup.pc # "threw"
    /\ (dup.name = "error" /\ dup.link \in {"true", "false"}) =>
          dup.pc = "returned" /\ ~dup.verdict[1].nameExists

\* C16: a verdict is produced only when the name lookup and every request of
\* the link lookup have completed, and it is determined by the store, the
\* arguments and whether the link lookup failed, whatever the order in which
\* the requests completed.
C16_JoinedVerdict ==
    /\ dup.pc = "running" => dup.verdict = <<>>
    /\ dup.verdict # <<>> =>
          /\ dup.name \in {"true", "false"} /\ dup.link \in {"true", "false"}
          /\ \A ix \in LinkIndexes : dup.idx[ix] # "pending"
          /\ dup.scan # "pending"
    /\ dup.pc = "returned" =>
          LET n == NameInStore
              l == ~dup.linkFailed /\ LinkInStore
          IN  dup.verdict[1] =
                 [exists |-> n \/ l, duplicateType |-> DuplicateTypeOf(n, l),
                  nameExists |-> n, linkExists |-> l]

\* C16 witness: the name lookup completed last, after three index lookups and
\* the full scan, and name and link were both found
C16_Witness ==
    /\ dup.pc = "returned" /\ dup.nameAt = 4
    /\ dup.verdict[1].duplicateType = "both"

-----------------------------------------------------------------------------
(* Properties of the TransferPanel handlers *)

\* A call of request() made for the running handler is under way
UpstreamBusy == st.pc \notin {"idle", "done"}

\* The records a handler has added to the store
InsertedRecords == {r \in dup.db : \A db \in PanelDBs : r \notin db}

IsSkip(r) == r.skipped
IsSuccess(r) == r.success
IsFailure(r) == ~r.success /\ ~r.skipped

\* C17 (as claimed): store() is called for a link only when checkDuplicate()
\* has been performed for that link and has returned exists = false.
C17_CheckedBeforeStore ==
    \A k \in 1..Len(tp.itemLog) :
        tp.itemLog[k].storeCalled => tp.itemLog[k].check = "clean"

\* C18: a link whose duplicate check returned exists = true is skipped:
\* store() is not called for it, no request past the detail request is issued
\* for it and no record is added; the single transfer shows the skip; the batch
\* pushes a skipped result, counts it in skipCount only, and goes on with the
\* next link.
C18_DuplicateSkipped ==
    /\ \A k \in 1..Len(tp.itemLog) :
          tp.itemLog[k].check = "duplicate" =>
              /\ ~tp.itemLog[k].storeCalled /\ ~tp.itemLog[k].jobs /\ ~tp.itemLog[k].inserted
              /\ ~tp.isBatchMode => tp.pc = "done" /\ tp.shown = "skip" /\ InsertedRecords = {}
              /\ tp.isBatchMode =>
                    /\ Len(tp.batchResults) >= k
                    /\ tp.batchResults[k].skipped /\ ~tp.batchResults[k].success
                    /\ k < tp.totalLinks => Len(tp.itemLog) > k
    /\ tp.isBatchMode =>
          /\ tp.skipCount =
                Cardinality({k \in 1..Len(tp.batchResults) : IsSkip(tp.batchResults[k])})
          /\ tp.skipCount =
                Cardinality({k \in 1..Len(tp.batchResults) :
                                tp.itemLog[k].check = "duplicate"})
          /\ tp.failCount =
                Cardinality({k \in 1..Len(tp.batchResults) : IsFailure(tp.batchResults[k])})
          /\ tp.successCount =
                Cardinality({k \in 1..Len(tp.batchResults) : IsSuccess(tp.batchResults[k])})
    /\ InsertedRecords # {} => \E k \in 1..Len(tp.itemLog) : tp.itemLog[k].storeCalled

\* C18 witness: the first link of a batch was skipped as a duplicate and
\* store() runs for the second
C18_Witness ==
    /\ tp.isBatchMode /\ Len(tp.itemLog) = 2 /\ tp.pc = "store"
    /\ tp.itemLog[1].check = "duplicate" /\ tp.skipCount = 1 /\ UpstreamBusy

\* C19: the links of a batch are processed one at a time in list order: a
\* request is under way only for link i + 1 of the list, and only when the
\* outcomes of the i links before it have been recorded, in list order.
C19_OneLinkAtATime ==
    tp.isBatchMode =>
        /\ Len(tp.batchResults) <= tp.totalLinks
        /\ \A k \in 1..Len(tp.batchResults) : tp.batchResults[k].link = tp.detectedLinks[k]
        /\ Len(tp.itemLog) <= Len(tp.batchResults) + 1
        /\ UpstreamBusy =>
              /\ tp.pc \in {"info", "store"}
              /\ Len(tp.batchResults) = tp.i /\ Len(tp.itemLog) = tp.i + 1
              /\ st.loc.url = tp.detectedLinks[tp.i + 1]
        /\ tp.pc \in {"pause", "done"} => ~UpstreamBusy

\* C19 witness: store() has a request under way for the second link of a
\* batch whose first link failed
C19_Witness ==
    /\ tp.isBatchMode /\ tp.pc = "store" /\ st.phase = "fetching" /\ tp.i = 1
    /\ tp.failCount = 1

\* C20 (as claimed): the 1-second sleep lies between the end of every link
\* and the first request of the next one, whatever the link's outcome, and
\* does not follow the last link.
C20_PauseBetweenLinks ==
    /\ \A k \in 2..Len(tp.itemLog) : tp.itemLog[k].pauseBefore
    /\ tp.pc = "pause" => tp.i < tp.totalLinks - 1

-----------------------------------------------------------------------------
(* Properties of the batch as a whole *)

\* The batch handler has run to its end over a list of links
BatchEnded == tp.isBatchMode /\ tp.pc = "done" /\ tp.totalLinks > 0 /\ tp.itemLog # <<>>

\* An awaited call threw into the catch block of link k's loop body
Caught(k) == tp.itemLog[k].caught # "none"

\* The transfer of link k succeeded upstream: store() returned success = true
Transferred(k) == tp.itemLog[k].inserted \/ tp.itemLog[k].caught = "insert"

\* The first three clauses of C21: a batch that has begun its first link ends
\* by showing the batch result, with one outcome per link in list order; a
\* link whose processing threw has a failure outcome and the loop went on
IsolatedFailures ==
    /\ (tp.isBatchMode /\ tp.pc = "done" /\ tp.itemLog # <<>>) =>
          /\ tp.shown = "batch"
          /\ Len(tp.batchResults) = tp.totalLinks
          /\ Len(tp.batchResults) = Len(tp.detectedLinks)
          /\ Len(tp.itemLog) = tp.totalLinks
    /\ tp.isBatchMode =>
          /\ \A k \in 1..Len(tp.batchResults) : tp.batchResults[k].link = tp.detectedLinks[k]
          /\ \A k \in 1..Len(tp.itemLog) :
                Caught(k) =>
                    /\ Len(tp.batchResults) >= k
                    /\ IsFailure(tp.batchResults[k])
                    /\ tp.batchResults[k].message = "error"
                    /\ ~tp.itemLog[k].inserted
                    /\ k < tp.totalLinks => (Len(tp.itemLog) > k \/ tp.pc = "pause")

successItems == {k \in 1..Len(tp.batchResults) : tp.batchResults[k].success}
skipItems ==
    {k \in 1..Len(tp.batchResults) : ~tp.batchResults[k].success /\ tp.batchResults[k].skipped}
failItems ==
    {k \in 1..Len(tp.batchResults) : ~tp.batchResults[k].success /\ ~tp.batchResults[k].skipped}

\* C22: when a batch finishes, successCount + failCount + skipCount =
\* totalCount = the number of links of the batch, and each counter is the
\* number of results of its kind in batchResults; while the batch runs the
\* counters add up to the number of links done.
C22_CountersMatchResults ==
    tp.batch =>
        /\ tp.successCount + tp.failCount + tp.skipCount = Len(tp.batchResults)
        /\ tp.successCount = Cardinality(successItems)
        /\ tp.failCount = Cardinality(failItems)
        /\ tp.skipCount = Cardinality(skipItems)
        /\ tp.shown = "batch" =>
              /\ tp.pc = "done"
              /\ tp.successCount + tp.failCount + tp.skipCount = tp.totalLinks
              /\ tp.totalLinks = Len(tp.startLinks)
              /\ Len(tp.batchResults) = Len(tp.startLinks)

\* C22 witness: a batch of two has finished with one success and one skip
C22_Witness ==
    /\ BatchEnded /\ tp.shown = "batch" /\ tp.totalLinks = 2
    /\ tp.successCount = 1 /\ tp.skipCount = 1 /\ tp.failCount = 0

-----------------------------------------------------------------------------
(* Properties of repeated transfers *)

\* An earlier attempt transferred the link and its record was inserted
FirstTransferRecorded == \E j \in 1..Len(tp.earlier) : tp.earlier[j].inserted

\* C23 (as claimed): once a transfer of the link has been recorded, a further
\* attempt of the TransferPanel for the same link, upstream answering with the
\* same file detail, is skipped: store() is not called, no save job is
\* submitted and the handler shows the skip.
C23_SecondAttemptSkipped ==
    (FirstTransferRecorded /\ tp.itemLog # <<>>) =>
        /\ ~tp.itemLog[1].storeCalled
        /\ ~tp.itemLog[1].jobs
        /\ tp.pc = "done" => tp.shown = "skip"

-----------------------------------------------------------------------------
(* Properties of getFileInfo() *)

\* C24: getFileInfo() issues the token request and then the detail request
\* and no other: no save job, poll, share job or share-link request; it
\* returns the file information when both succeeded and null on any failure,
\* a request that threw included, and the handler goes on.
C24_InfoReadsOnly ==
    tp.pc = "info" =>
        /\ IsPrefix(st.stepLog, <<"token", "detail">>)
        /\ st.pc \in {"token", "detail", "done"}
        /\ st.polls = <<>>
        /\ st.sent.fid = "" /\ st.sent.task_id = "" /\ st.sent.share_id = ""
        /\ st.sent.title = "" /\ st.sent.retry_index = -1
        /\ ~Last(tp.itemLog).jobs
        /\ st.lastReq.result = "threw" => st.pc = "done" /\ extractFileName(st) = ""
        /\ st.pc = "done" =>
              (extractFileName(st) = "" <=>
                  \/ st.loc.pwdId = <<>>
                  \/ st.rets # <<>> /\ FailureResult(Last(st.rets)))

\* C24 witness: the detail request of getFileInfo() failed at its third
\* attempt and getFileInfo() has returned null
C24_Witness ==
    /\ tp.pc = "info" /\ st.pc = "done"
    /\ st.lastReq = [step |-> "detail", result |-> "threw", err |-> "network"]
    /\ extractFileName(st) = ""

-----------------------------------------------------------------------------
(* Properties of the record store *)

\* The step adds to the store the record of the transfer that has just
\* succeeded: the handler awaits insertFile() after store() returned
\* success = true with the data the record is made of
RecordAddedAfterSuccess ==
    /\ tp.pc = "insert" /\ Last(tp.itemLog).storeCalled /\ tp.result # <<>>
    /\ dup'.db = dup.db \cup {insertFile(tp.result[1])}
    /\ Last(tp'.itemLog).inserted

-----------------------------------------------------------------------------
(* Properties of the values store() passes from step to step *)

\* What the helper of `step` returned to the running call of store()
Ret(step) == (CHOOSE r \in Range(st.rets) : r.step = step).value

\* C26: every request of a call of store() carries only values produced
\* earlier in that call: the id parsed from its url, the share token its token
\* request returned, the fid and share_fid_token of entry 0 of its one detail
\* response, the task ids its save and share requests returned, the first fid
\* its save job resolved to and the share id its share job resolved to.
C26_ValuesOfThisCall ==
    (InRequest \/ st.phase = "pollwait") =>
        LET entry0 == st.seen.list[1]
        IN  /\ Cardinality({k \in 1..Len(st.stepLog) : st.stepLog[k] = "detail"}) <= 1
            /\ st.pc = "token" => st.sent = [NoArgs EXCEPT !.pwd_id = getIdFromUrl(st.loc.url)]
            /\ st.pc = "detail" =>
                  st.sent = [NoArgs EXCEPT !.pwd_id = getIdFromUrl(st.loc.url),
                                           !.stoken = Ret("token")]
            /\ st.pc = "save" =>
                  st.sent = [NoArgs EXCEPT !.pwd_id = getIdFromUrl(st.loc.url),
                                           !.stoken = Ret("token"),
                                           !.fid = entry0.fid,
                                           !.fid_token = entry0.share_fid_token]
            /\ st.pc = "saveTask" =>
                  st.sent = [NoArgs EXCEPT !.task_id = Ret("save"), !.retry_index = st.i]
            /\ st.pc = "share" =>
                  st.sent = [NoArgs EXCEPT !.fid = Ret("saveTask")[1].fids[1],
                                           !.title = entry0.file_name]
            /\ st.pc = "shareTask" =>
                  st.sent = [NoArgs EXCEPT !.task_id = Ret("share"), !.retry_index = st.i]
            /\ st.pc = "link" =>
                  st.sent = [NoArgs EXCEPT !.share_id = Ret("shareTask")[1].share_id]

\* C26 witness: the save request is under way with the second token and the
\* fid of the first of two different entries of the detail list
C26_Witness ==
    /\ st.pc = "save" /\ st.phase = "fetching"
    /\ st.sent.stoken = "tok2" /\ st.sent.fid = "f2"
    /\ Len(st.seen.list) = 2 /\ st.seen.list[2].fid = "f1"

-----------------------------------------------------------------------------
(* Properties of input checking *)

\* C27: an input error is rejected before any network call and without a
\* retry: store() and getFileInfo() on a link without a share id fail with no
\* request issued; handleSingleTransfer on an empty or non-matching link ends
\* with a notice before anything is called; search() on an empty or blank
\* term throws with no fetch.
C27_InputErrorsBeforeNetwork ==
    /\ (st.op # "none" /\ getIdFromUrl(st.loc.url) = <<>>) =>
          /\ st.pc = "done" /\ st.stepLog = <<>>
          /\ st.attempt = 0 /\ st.delays = <<>> /\ st.sent = NoArgs
          /\ st.op = "store" =>
                /\ Settled /\ ~Succeeded
                /\ st.outcome[1].message = <<"transfer-failed", MsgNoId>>
          /\ st.op = "info" => extractFileName(st) = ""
    /\ tp.shown \in {"warning", "invalid"} =>
          /\ tp.pc = "idle" /\ ~tp.isTransferring /\ tp.itemLog = <<>>
          /\ st = Idle /\ dup.pc = "idle"
    /\ (tp.pc # "idle" /\ ~tp.batch) => isValidQuarkUrl(tp.link)
    /\ (srch.pc # "idle" /\ trim(srch.q) = <<>>) =>
          srch.pc = "done" /\ srch.requests = 0 /\ srch.outcome = "threw"
    /\ srch.requests <= 1
    /\ srch.requests = 1 => srch.sent = trim(srch.q) /\ srch.sent # <<>>

\* C27 witness: store() was called with a link of pan.quark.cn that has no
\* /s/ segment and has returned its failure
C27_Witness ==
    /\ st.op = "store" /\ st.pc = "done"
    /\ st.loc.url # <<>> /\ getIdFromUrl(st.loc.url) = <<>>

-----------------------------------------------------------------------------
(* Properties of the link functions *)

\* The text is https://pan.quark.cn/s/<identifier> and nothing else, the
\* identifier a non-empty run of word characters
Canonical(text) ==
    /\ Len(text) > Len(LinkPrefix)
    /\ SubSeq(text, 1, Len(LinkPrefix)) = LinkPrefix
    /\ \A k \in (Len(LinkPrefix) + 1)..Len(text) : text[k] \in WordChars

\* The path segment of a canonical text that follows /s/
Segment(text) == SubSeq(text, Len(LinkPrefix) + 1, Len(text))

\* /s/ followed by a word character stands at position p of the text
SegmentAt(text, p) ==
    /\ p + 3 <= Len(text)
    /\ SubSeq(text, p, p + 2) = <<"/", "s", "/">>
    /\ text[p + 3] \in WordChars

\* C28 (as claimed): for a text of the canonical shape getIdFromUrl() returns
\* the path segment following /s/, and for every other text it returns the
\* empty result.
C28_IdOnlyFromCanonical ==
    "getIdFromUrl" \in lp.calls =>
        /\ Canonical(lp.text) => lp.id = Segment(lp.text)
        /\ ~Canonical(lp.text) => lp.id = <<>>

\* C28 (as amended): for a text of the canonical shape getIdFromUrl() returns
\* the path segment following /s/; for any text, canonical or not, that holds
\* /s/ followed by a word character it returns the longest run of word
\* characters following the leftmost such /s/; it returns the empty result
\* exactly for the texts that hold no /s/ followed by a word character.
C28_IdAfterLeftmostSegment ==
    "getIdFromUrl" \in lp.calls =>
        /\ Canonical(lp.text) => lp.id = Segment(lp.text)
        /\ lp.id = <<>> <=> ~\E p \in 1..Len(lp.text) : SegmentAt(lp.text, p)
        /\ lp.id # <<>> =>
              \E p \in 1..Len(lp.text) :
                  /\ SegmentAt(lp.text, p)
                  /\ \A q \in 1..(p - 1) : ~SegmentAt(lp.text, q)
                  /\ p + 2 + Len(lp.id) <= Len(lp.text)
                  /\ lp.id = SubSeq(lp.text, p + 3, p + 2 + Len(lp.id))
                  /\ \A k \in 1..Len(lp.id) : lp.id[k] \in WordChars
                  /\ \/ p + 2 + Len(lp.id) = Len(lp.text)
                     \/ lp.text[p + 3 + Len(lp.id)] \notin WordChars

\* C28 witness: getIdFromUrl() has returned ab1 for a text that does not
\* begin with https://pan.quark.cn/s/
C28_Witness ==
    /\ "getIdFromUrl" \in lp.calls
    /\ ~isValidQuarkUrl(lp.text)
    /\ lp.id = <<"a", "b", "1">>

\* C29: for every text for which isValidQuarkUrl() is true getIdFromUrl()
\* returns a non-empty id, so store() called with it issues its token
\* request; the same holds of every link extractQuarkLinks() returns.
C29_ValidImpliesId ==
    /\ ({"getIdFromUrl", "isValidQuarkUrl"} \subseteq lp.calls /\ lp.valid) =>
          /\ lp.id # <<>>
          /\ Start(lp.text, "none", FALSE, FALSE).pc = "token"
    /\ "extractQuarkLinks" \in lp.calls =>
          \A k \in 1..Len(lp.links) :
              /\ isValidQuarkUrl(lp.links[k])
              /\ getIdFromUrl(lp.links[k]) # <<>>
              /\ Start(lp.links[k], "none", FALSE, FALSE).pc = "token"

\* C29 witness: a valid text whose id ends with an underscore: the id is b_,
\* the link extracted from the text ends before the underscore
C29_Witness ==
    /\ lp.calls = {"getIdFromUrl", "isValidQuarkUrl", "extractQuarkLinks"}
    /\ lp.valid /\ lp.id = <<"b", "_">>
    /\ lp.links = <<LinkPrefix \o <<"b">>>>

\* The positions of the matches a left-to-right scan takes: a position where
\* the pattern matches, not covered by a match taken before it
Taken(text) ==
    LET starts == {p \in 1..Len(text) : MatchesAt(text, p)}
    IN  CHOOSE S \in SUBSET starts :
            \A p \in starts : p \in S <=> \A q \in S : q < p => MatchEnd(text, q) < p

\* C30 (as claimed): extractQuarkLinks(text) returns every occurrence of the
\* canonical link shape in the text: wherever the shape begins in the text, the
\* link that begins there is returned; no link is returned twice; the empty
\* list is returned for an empty or blank text and a text without a link.
C30_EveryOccurrenceReturned ==
    "extractQuarkLinks" \in lp.calls =>
        /\ \A p \in 1..Len(lp.text) :
              MatchesAt(lp.text, p) =>
                  SubSeq(lp.text, p, MatchEnd(lp.text, p)) \in Range(lp.links)
        /\ \A a, b \in 1..Len(lp.links) : a # b => lp.links[a] # lp.links[b]
        /\ trim(lp.text) = <<>> => lp.links = <<>>
        /\ (\A p \in 1..Len(lp.text) : ~MatchesAt(lp.text, p)) => lp.links = <<>>

\* C30 (as amended): extractQuarkLinks(text) returns the matches of the link
\* pattern that a left-to-right scan takes, a match running over the longest
\* run of letters and digits and the scan going on after its end, so that a
\* link beginning inside the match before it is not returned; each link is
\* returned once, in the order of the first occurrences; the empty list is
\* returned for an empty or blank text and for a text without a link.
C30_AllLinksOnceInOrder ==
    "extractQuarkLinks" \in lp.calls =>
        LET text == lp.text
            links == lp.links
            linkAt(p) == SubSeq(text, p, MatchEnd(text, p))
            firstAt(l) == CHOOSE p \in Taken(text) :
                              linkAt(p) = l /\ \A q \in Taken(text) : linkAt(q) = l => p <= q
        IN  /\ Range(links) = {linkAt(p) : p \in Taken(text)}
            /\ \A a, b \in 1..Len(links) : a # b => links[a] # links[b]
            /\ \A a, b \in 1..Len(links) : a < b => firstAt(links[a]) < firstAt(links[b])
            /\ trim(text) = <<>> => links = <<>>
            /\ (\A p \in 1..Len(text) : ~MatchesAt(text, p)) => links = <<>>

\* C30 witness: of three links in the text the third repeats the first; the
\* two different links are returned in the order of the text
C30_Witness ==
    /\ lp.text = SecondUrl \o <<" ">> \o OriginalUrl \o <<" ">> \o SecondUrl \o <<" ">>
    /\ lp.links = <<SecondUrl, OriginalUrl>>

-----------------------------------------------------------------------------
(* Properties of the service and its requests *)

\* C32 (as claimed): every request carries the credential in exactly one
\* place, decided by the proxy setting the service was created under: with the
\* proxy disabled it goes to https://drive-pc.quark.cn with the credential in
\* the cookie header, with the proxy enabled to the proxy URL with the
\* credential in X-Quark-Cookie.
C32_CredentialFollowsSetting ==
    svc.wire # <<>> =>
        LET r == svc.wire[1].req
            q == svc.wire[1].by
        IN  IF q.option
            THEN r.host = q.proxyUrl /\ r.xQuarkCookie = q.cookie /\ r.cookie = ""
            ELSE r.host = UpstreamHost /\ r.cookie = q.cookie /\ r.xQuarkCookie = ""

-----------------------------------------------------------------------------
(* Properties of the SearchPanel and of store() calls in flight together *)

\* store() run by itself on `script`, the responses request() returns to its
\* helpers: each is followed by the code up to the next request
AloneStep(s, e) ==
    LET s1 == Resume(s, e.body, e.threw, FALSE, FALSE)
    IN  IF s1.phase = "pollwait" THEN NextPoll(s1, FALSE, FALSE) ELSE s1

RECURSIVE RunAlone(_, _)
RunAlone(s, script) ==
    IF script = <<>> THEN s ELSE RunAlone(AloneStep(s, Head(script)), Tail(script))

\* The handlers of the SearchPanel whose store() call has not settled
InFlight == {item \in Items : sp.h[item].pc = "store" /\ sp.h[item].s.pc # "done"}

Running(item) == sp.h[item].pc \in {"dup", "store", "save"}

\* C39: per result item at most one handleTransferRequest is in progress, the
\* item is in transferringItems exactly while it is, every way out of the
\* handler removes it, and no store() call is made for an item of
\* transferredItems.
C39_OneTransferPerItem ==
    /\ \A item \in Items :
          /\ sp.starts[item] - sp.ends[item] = (IF Running(item) THEN 1 ELSE 0)
          /\ item \in sp.transferringItems <=> Running(item)
          /\ item \in sp.transferredItems => ~Running(item) /\ sp.state[item] = "success"
          /\ sp.state[item] = "error" => ~Running(item) /\ sp.ends[item] > 0
    /\ ~sp.lateStore

\* C39 witness: an item whose first handler ended in an error is being
\* transferred by a second one, the other item has been transferred, and the
\* last click that started nothing was one on an item being transferred
C39_Witness ==
    /\ sp.refused = "busy"
    /\ \E a, b \in Items :
          /\ sp.starts[a] = 2 /\ sp.ends[a] = 1 /\ sp.h[a].pc = "store"
          /\ b \in sp.transferredItems /\ sp.starts[b] = 1

-----------------------------------------------------------------------------
(* Properties of the TransferPanel under input events *)

\* A handler is suspended at one of its awaits
HandlerSuspended == tp.pc \in {"info", "dup", "store", "insert", "pause"}

\* C33: isTransferring is true exactly while a handler is suspended in
\* progress; a click that arrives meanwhile starts no second handler, so at
\* most one handler has started and not ended; and after a handler has ended,
\* however it ended, isTransferring is false.
C33_OneHandlerAtATime ==
    /\ tp.isTransferring <=> HandlerSuspended
    /\ tp.starts - tp.ends = (IF HandlerSuspended THEN 1 ELSE 0)
    /\ tp.pc = "done" => (~tp.isTransferring /\ tp.starts = tp.ends)
    /\ tp.ignored => tp.starts = 1

\* C33 witness: the button was clicked while the batch handler awaited
\* store() for its second link, and the handler went on to its end alone
C33_Witness ==
    /\ tp.pc = "done" /\ tp.batch /\ tp.ignored /\ Len(tp.itemLog) = 2
    /\ tp.starts = 1 /\ tp.ends = 1 /\ ~tp.isTransferring

\* C34 (as claimed): input events that arrive while a batch runs leave it
\* alone: the i-th link processed is the i-th link detected when the batch
\* started, and when the batch has finished batchResults holds the outcome
\* of every link processed.
C34_InputsLeaveBatchAlone ==
    tp.batch =>
        /\ \A k \in 1..Len(tp.itemLog) :
              k <= Len(tp.startLinks) /\ tp.itemLog[k].link = tp.startLinks[k]
        /\ (tp.pc = "done" /\ tp.shown = "batch") =>
              /\ Len(tp.batchResults) = Len(tp.startLinks)
              /\ \A k \in 1..Len(tp.batchResults) :
                    tp.batchResults[k].link = tp.startLinks[k]

\* A handler of the panel has transferred its link and inserted the record
TransferRecorded ==
    \E k \in 1..Len(tp.earlier \o tp.itemLog) : (tp.earlier \o tp.itemLog)[k].inserted

\* C35 (as claimed): once the TransferPanel has transferred share URL u and
\* recorded the outcome, checkDuplicate(name, u) reports linkExists = true
\* for every name: fileExistsByShareLink(u) finds a record.
C35_OriginalUrlRecognised ==
    (TransferRecorded /\ ~tp.batch) => LinkFound(dup.db, OriginalUrl)

-----------------------------------------------------------------------------
(* Properties of the counting of a batch *)

\* The links of the running batch whose record insertion completed
InsertedItems == {k \in 1..Len(tp.itemLog) : tp.itemLog[k].inserted}

\* C36: in a batch a link is counted as a success if and only if store()
\* returned success = true and the insertion of its record completed, so the
\* records added during the batch are as many as successCount; a link whose
\* transfer succeeded and whose insertion failed is counted as a failure.
C36_SuccessMeansRecorded ==
    tp.batch =>
        /\ \A k \in 1..Len(tp.itemLog) :
              /\ tp.itemLog[k].counted = "success" <=>
                    (tp.itemLog[k].storeOk /\ tp.itemLog[k].inserted)
              /\ tp.itemLog[k].caught = "insert" =>
                    (tp.itemLog[k].storeOk /\ tp.itemLog[k].counted = "fail")
              /\ tp.itemLog[k].inserted => tp.itemLog[k].storeOk
        /\ tp.successCount = Cardinality({k \in 1..Len(tp.itemLog) :
                                             tp.itemLog[k].counted = "success"})
        /\ tp.successCount = Cardinality(InsertedItems)
        /\ tp.successCount = 0 <=> InsertedRecords = {}

\* C36 witness: a batch of two has ended; both links were transferred
\* upstream, the record of the first was inserted and the insertion of the
\* second failed: one success, one failure, one record added
C36_Witness ==
    /\ BatchEnded /\ tp.totalLinks = 2
    /\ tp.itemLog[1].inserted /\ tp.itemLog[2].storeOk /\ tp.itemLog[2].caught = "insert"
    /\ tp.successCount = 1 /\ tp.failCount = 1 /\ Cardinality(InsertedRecords) = 1

-----------------------------------------------------------------------------
(* Termination of store() *)

\* What a call of store() has used so far: each of the seven steps is entered
\* at most once and in order (token, detail, save, share and link are one
\* request each), a call of task() polls at most MaxTries times with
\* retry_index 0, 1, ..., and a call of request() makes at most Retries fetch
\* attempts, sleeping before each but the first.  That is at most
\* 5 + 2 * MaxTries = 25 calls of request().
WithinBudget ==
    /\ IsPrefix(st.stepLog, StepOrder)
    /\ Len(st.polls) <= MaxTries
    /\ \A k \in 1..Len(st.polls) : st.polls[k] = k - 1
    /\ st.attempt \in 0..Retries
    /\ Len(st.delays) <= Retries - 1
    /\ Len(StepOrder) - Cardinality(TaskSteps) + Cardinality(TaskSteps) * MaxTries = 25

\* C37: every call of store() terminates when every fetch attempt does: it
\* stays within 25 calls of request() and 3 fetch attempts a call, and it
\* returns an outcome.
C37_StoreTerminates ==
    /\ [](st.op = "store" => WithinBudget)
    /\ (st.op = "store") ~> (st.pc = "done" /\ Len(st.outcome) = 1)

\* C37 witness: store() has returned after all seven steps, its share job
\* polled ten times and its last request answered at the third attempt
C37_Witness ==
    /\ st.op = "store" /\ st.pc = "done" /\ Len(st.outcome) = 1
    /\ st.stepLog = StepOrder /\ Len(st.polls) = MaxTries /\ st.attempt = Retries

-----------------------------------------------------------------------------
(* Properties of export and import *)

\* C38 (as claimed): after export, clearAllData and importData of the
\* exported data, with no request of the import failing, checkDuplicate
\* returns for every file name and link the verdict it returned on the
\* original store.
C38_ImportPreservesVerdicts ==
    (bk.pc = "done" /\ ~bk.failed) =>
        \A n \in DupNames, l \in DupLinks :
            Verdict(dup.db, n, l) = Verdict(bk.original, n, l)

-----------------------------------------------------------------------------
(* Properties of the CORS proxy *)

\* C40 (as claimed): no response to a request whose Origin header is not in
\* ALLOWED_ORIGINS carries an Access-Control-Allow-Origin equal to that
\* origin or to the wildcard.
C40_AllowListOnly ==
    (px.resp # <<>> /\ ~Includes(ALLOWED_ORIGINS, px.req.origin)) =>
        px.resp[1].acao \notin {px.req.origin, "*"}

=============================================================================
